---- MODULE Spec2Model ----
(***************************************************************************)
(* Verification model of the event-hook auction system.                    *)
(*                                                                         *)
(* Part 1: the AuctionLedger, i.e. the EventHookAuction contract           *)
(* (src/unnamed/part_001, lines 173-423).  Every external function of the  *)
(* contract is one action; a transaction either commits all of its writes  *)
(* or reverts and leaves the contract state and every balance untouched.   *)
(* The variable `call` records what an observer of the chain sees of the   *)
(* latest transaction: the function, its arguments, the revert error (or   *)
(* "ok"), the events emitted and the ether transfers the ledger made.      *)
(***************************************************************************)
EXTENDS Integers, Sequences, FiniteSets, TLC

(***************************************************************************)
(* Bounds of the model.                                                    *)
(***************************************************************************)
\* block.timestamp starts at 0 and advances by one with every mined
\* transaction; no transaction is mined after MaxTime.
MaxTime == 4
\* Ether every bidder account holds at the start.
InitBalance == 201
\* Nonces a caller of withdrawWinnings may pass: 0..MaxNonce.
MaxNonce == 1

(***************************************************************************)
(* Program constants.                                                      *)
(***************************************************************************)
MIN_BID_INCREMENT == 101
PERCENTAGE_BASE == 100

(***************************************************************************)
(* Accounts.                                                               *)
(***************************************************************************)
Zero == "0x0"                \* address(0)
ZeroBytes == "0x00"          \* bytes32(0)
Ledger == "EventHookAuction" \* address(this)
OtherLedger == "OtherDeployment"
Owner == "Owner"
Exec1 == "Exec1"
Exec2 == "Exec2"
Alice == "Alice"
Bob == "Bob"
\* A contract account whose receive function reverts.
Rejector == "Rejector"
Vault == "Vault"
\* What ecrecover yields for a well-formed signature over another message.
Unrelated == "Unrelated"

Addresses == {Zero, Ledger, Owner, Exec1, Exec2, Alice, Bob, Rejector, Vault, Unrelated}
Bidders == {Alice, Bob, Rejector}
Executors == {Zero, Exec1, Exec2}
\* Accounts whose private key somebody holds and signs with.
Keyholders == {Exec1, Exec2, Alice}
AdminCallers == {Owner, Alice}
Vaults == {Zero, Vault}
Relayer == "Relayer"

\* msg.value of a bid: nothing, one wei, and the amounts around the 1%
\* step (a bid of PERCENTAGE_BASE needs MIN_BID_INCREMENT to be outbid).
BidAmounts == {0, 1, PERCENTAGE_BASE, MIN_BID_INCREMENT}
Nonces == 0..MaxNonce

(***************************************************************************)
(* Event filters and their hash.                                           *)
(***************************************************************************)
ZeroFilter ==
    [contractAddress |-> Zero, topic0 |-> ZeroBytes, topic1 |-> ZeroBytes,
     topic2 |-> ZeroBytes, topic3 |-> ZeroBytes,
     useTopic1 |-> FALSE, useTopic2 |-> FALSE, useTopic3 |-> FALSE]

FilterA == [ZeroFilter EXCEPT !.contractAddress = "PoolManager", !.topic0 = "Initialize"]
\* Differs from FilterA in one use flag only.
FilterB == [FilterA EXCEPT !.useTopic2 = TRUE]
FilterNoContract == [FilterA EXCEPT !.contractAddress = Zero]
FilterNoTopic0 == [FilterA EXCEPT !.topic0 = ZeroBytes]

Filters == {FilterA, FilterB, FilterNoContract, FilterNoTopic0}

\* Mutant of getFilterHash: a topic whose use flag is false is hashed as
\* zero, and topic1..topic3 stand for their flags.
getFilterHashOfUsedTopics(filter) ==
    <<filter.contractAddress, filter.topic0,
      IF filter.useTopic1 THEN filter.topic1 ELSE ZeroBytes,
      IF filter.useTopic2 THEN filter.topic2 ELSE ZeroBytes,
      IF filter.useTopic3 THEN filter.topic3 ELSE ZeroBytes,
      FALSE, FALSE, FALSE>>

\* keccak256(abi.encode(f1, ..., f8)): abi.encode of eight static fields is
\* injective and keccak256 is taken to be collision free, so the hash is
\* modelled by the encoded tuple itself.
getFilterHash(filter) ==
    <<filter.contractAddress, filter.topic0, filter.topic1, filter.topic2,
      filter.topic3, filter.useTopic1, filter.useTopic2, filter.useTopic3>>

FilterHashes == {getFilterHash(f) : f \in Filters}
\* The filter hashes that withdrawWinnings and the owner functions are called with.
AuctionHashes == {getFilterHash(FilterA), getFilterHash(FilterB)}

\* The placeBid calls made: <<msg.sender, filter, msg.value>>.  Every bidder
\* bids every amount on FilterA; FilterB gets one kind of bid; a malformed
\* filter is tried with and without ether.
BidCalls ==
    {<<s, FilterA, v>> : s \in Bidders, v \in BidAmounts}
    \cup {<<Bob, FilterB, PERCENTAGE_BASE>>}
    \cup {<<Alice, f, v>> : f \in {FilterNoContract, FilterNoTopic0}, v \in {0, PERCENTAGE_BASE}}
NoHash == <<>>

(***************************************************************************)
(* State.                                                                  *)
(***************************************************************************)
VARIABLES
    auctions,   \* mapping(bytes32 => Auction)
    nonces,     \* mapping(address => uint256)
    owner,      \* address public owner
    executor,   \* address public executor
    balances,   \* ether balance of every account, the ledger included
    now,        \* block.timestamp
    call,       \* the latest transaction as seen from outside
    withdrawn,  \* history: successful withdrawWinnings per filterHash
    accepted    \* history: <<signer, filterHash, vault, nonce>> of every
                \* signed message a successful withdrawWinnings accepted

\* The chain's event log and the read model that AuctionSync derives from it.
VARIABLES
    logs,          \* every event the ledger emitted, in chain order
    cursor,        \* per watched event: how many logs its watcher has seen
    running,       \* the handlers in flight, in the order they resume
    backfill,      \* syncHistoricalEvents: where it is and what it fetched
    eventAuctions, \* table event_auctions, keyed by eventSignature
    auctionBids,   \* table auction_bids, keyed by id
    clockMs,       \* Date.now() of the latest insert into auction_bids
    sameTick       \* whether Date.now() may still return clockMs

\* FlashblocksListener and the EventMonitor that owns it.
VARIABLES
    started,             \* EventMonitor: "no", "yes" after start(), "stopped" after stop()
    ws,                  \* this.ws: "null", or "set" when it refers to the socket
    socket,              \* readyState of the newest WebSocket, "none" when it has closed
    replaced,            \* per readyState: the older WebSockets that have not closed
    isConnecting,        \* FlashblocksListener.isConnecting
    reconnectAttempts,   \* FlashblocksListener.reconnectAttempts
    reconnectDelay,      \* FlashblocksListener.reconnectDelay
    timers,              \* delays of the pending setTimeout(() => this.connect())
    eventSignatures,     \* FlashblocksListener.eventSignatures: topic0 -> signature
    monitoredSignatures, \* EventMonitor.monitoredSignatures: key -> signature
    signatureRows,       \* table event_signatures, in insertion order
    detectedEvents,      \* table detected_events, in insertion order
    processed,           \* calls of HookExecutor.processEvent per stored event id
    detections,          \* the handleEventDetected runs in flight
    lcall                \* the latest step of the listener as seen from outside

\* The template pipeline: VariableResolver, MulticallProcessor and the
\* executors' encodeMulticallData.
VARIABLES
    tcall                \* the latest call of a function of the pipeline, with its result

\* The template executor: HookExecutor (the template-based class) and the
\* MulticallExecutor it owns, with the tables and the chain they work on.
VARIABLES
    eventHooks,           \* table event_hooks: hook id -> row
    transactionTemplates, \* table transaction_templates: template id -> template
    hookExecutions,       \* table hook_executions: execution id -> row
    runs,                 \* the processEvent run of each detected event
    simulated,            \* event ids of the multicalls handed to simulateMulticall
    rawTxs,               \* signed transactions handed to sendRawTransactionSync
    chainTxs,             \* hashes of the transactions the endpoint accepted
    transactionCount,     \* getTransactionCount(pending) of the automation wallet
    dateNow               \* the latest value of Date.now()

\* The auction executor: HookExecutor (the auction-based class).
VARIABLES
    auctionRuns,          \* the processInternalEvent run of each detected event
    executorTxs,          \* signed transactions of the executor handed to the endpoint
    executorTxCount       \* getTransactionCount(pending) of the executor account

templateVars == <<tcall>>
auctionExecVars == <<auctionRuns, executorTxs, executorTxCount>>
execVars == <<eventHooks, transactionTemplates, hookExecutions, runs, simulated, rawTxs,
              chainTxs, transactionCount, dateNow>>
hookVars == <<templateVars, execVars, auctionExecVars>>
listenerVars == <<started, ws, socket, replaced, isConnecting, reconnectAttempts, reconnectDelay,
                  timers, eventSignatures, monitoredSignatures, signatureRows,
                  detectedEvents, processed, detections, lcall>>
\* The reconnectDelay of a new listener, restored by handleOpen.
BaseDelay == 1000

\* The logs of the transaction tx1 that match the hook, by log index, and
\* the processEvent run of a log that has not been detected.
LogIndexes == {0, 1}

NoRun == [pc |-> "idle", multicall |-> <<>>, nonce |-> 0, error |-> "", escaped |-> FALSE]

NoAuctionRun ==
    [pc |-> "idle", event |-> <<>>, filterHash |-> <<>>, winner |-> <<>>, nonce |-> 0,
     executorNonce |-> 0, signature |-> <<>>, data |-> <<>>, error |-> ""]

ledgerVars == <<auctions, nonces, owner, executor, balances, now, call, withdrawn, accepted>>
syncVars == <<logs, cursor, running, backfill, eventAuctions, auctionBids, clockMs, sameTick>>
offchainVars == <<syncVars, listenerVars, hookVars>>
vars == <<ledgerVars, offchainVars>>

\* The events AuctionMonitor.start() watches.
WatchedEvents == {"AuctionCreated", "BidPlaced", "WinningsWithdrawn"}

\* The value of an untouched storage slot of `auctions`.
EmptyAuction ==
    [currentBidder |-> Zero, currentBid |-> 0, minimumBid |-> 0, lastBidTime |-> 0,
     isActive |-> FALSE, isExecuted |-> FALSE, filter |-> ZeroFilter]

NoCall ==
    [op |-> "constructor", sender |-> Owner, filter |-> ZeroFilter, filterHash |-> NoHash,
     value |-> 0, vault |-> Zero, nonce |-> 0, signer |-> Zero,
     err |-> "ok", errArgs |-> <<>>, events |-> <<>>, transfers |-> <<>>]

Init ==
    /\ auctions = [h \in FilterHashes |-> EmptyAuction]
    /\ nonces = [a \in Addresses |-> 0]
    /\ owner = Owner
    /\ executor = Exec1
    /\ balances = [a \in Addresses |-> IF a \in Bidders THEN InitBalance ELSE 0]
    /\ now = 0
    /\ call = NoCall
    /\ withdrawn = [h \in FilterHashes |-> 0]
    /\ accepted = {}
    /\ logs = <<>>
    /\ cursor = [e \in WatchedEvents |-> 0]
    /\ running = <<>>
    /\ backfill = [pc |-> "idle", todo |-> <<>>, head |-> 0, created |-> <<>>]
    /\ eventAuctions = <<>>
    /\ auctionBids = {}
    /\ clockMs = 0
    /\ sameTick = FALSE
    /\ started = "no"
    /\ ws = "null"
    /\ socket = "none"
    /\ replaced = [readyState \in {"CONNECTING", "OPEN", "CLOSING"} |-> 0]
    /\ isConnecting = FALSE
    /\ reconnectAttempts = 0
    /\ reconnectDelay = BaseDelay
    /\ timers = <<>>
    /\ eventSignatures = <<>>
    /\ monitoredSignatures = <<>>
    /\ signatureRows = <<>>
    /\ detectedEvents = <<>>
    /\ processed = <<>>
    /\ detections = <<>>
    /\ lcall = [op |-> "constructor", code |-> 0, errors |-> <<>>, id |-> <<>>]
    /\ tcall = [op |-> "none"]
    /\ eventHooks = <<>>
    /\ transactionTemplates = <<>>
    /\ hookExecutions = <<>>
    /\ runs = [logIndex \in LogIndexes |-> NoRun]
    /\ simulated = {}
    /\ rawTxs = {}
    /\ chainTxs = {}
    /\ transactionCount = 0
    /\ dateNow = 0
    /\ auctionRuns = [logIndex \in LogIndexes |-> NoAuctionRun]
    /\ executorTxs = {}
    /\ executorTxCount = 0


(***************************************************************************)
(* Helpers shared by the contract functions.                               *)
(***************************************************************************)
\* Whether a plain ether transfer to `to` is accepted by the recipient.
\* The ledger declares neither receive() nor fallback(), so it rejects
\* plain transfers as well.
CanReceive(to) == to \notin {Rejector, Ledger}

\* Mutant of Transfer: the failure of the transfer is ignored, as with
\* send() whose result is not looked at.
TransferUnchecked(bal, to, amount) ==
    IF bal[Ledger] >= amount /\ CanReceive(to)
    THEN [ok |-> TRUE,
          bal |-> [a \in Addresses |->
                     IF a = Ledger THEN bal[a] - amount
                     ELSE IF a = to THEN bal[a] + amount
                     ELSE bal[a]],
          sent |-> <<[to |-> to, amount |-> amount]>>]
    ELSE [ok |-> TRUE, bal |-> bal, sent |-> <<>>]

\* payable(to).transfer(amount), executed by the ledger on balances `bal`:
\* ok is FALSE when the transfer reverts (the ledger holds less than amount,
\* or the recipient does not take it); sent lists the ether that moved.
Transfer(bal, to, amount) ==
    IF bal[Ledger] >= amount /\ CanReceive(to)
    THEN [ok |-> TRUE,
          bal |-> [a \in Addresses |->
                     IF a = Ledger THEN bal[a] - amount
                     ELSE IF a = to THEN bal[a] + amount
                     ELSE bal[a]],
          sent |-> <<[to |-> to, amount |-> amount]>>]
    ELSE [ok |-> FALSE, bal |-> bal, sent |-> <<>>]

\* msg.value moving from the sender to the ledger on a payable call.
Deposit(bal, sender, value) ==
    [bal EXCEPT ![sender] = @ - value, ![Ledger] = @ + value]

\* Mutant of requiredBid: the quotient rounded up instead of down.
requiredBidRoundedUp(currentBid) ==
    (currentBid * MIN_BID_INCREMENT + PERCENTAGE_BASE - 1) \div PERCENTAGE_BASE

\* uint256 requiredBid = (auction.currentBid * MIN_BID_INCREMENT) / PERCENTAGE_BASE;
\* the product cannot overflow uint256: currentBid is at most the ether in
\* existence.
requiredBid(currentBid) == (currentBid * MIN_BID_INCREMENT) \div PERCENTAGE_BASE

auctionExists(filterHash) ==
    auctions[filterHash].currentBidder # Zero \/ auctions[filterHash].currentBid > 0

getWinner(filterHash) == auctions[filterHash].currentBidder

\* A transaction that reverts: nothing changes but what the observer sees.
Reverts(c) ==
    /\ call' = c
    /\ UNCHANGED <<auctions, nonces, owner, executor, balances, now, withdrawn, accepted>>

\* A reverted transaction leaves no trace on the chain: the transaction after
\* it runs on the very state the reverted one ran on.  Every behaviour with
\* reverted transactions in it therefore passes through the same ledger
\* states, in the same order, as the behaviour without them, and it is
\* enough to look at a reverted transaction as the last thing that happens.
LastCallMined == call.err = "ok"

\* A transaction that is mined: one more block.
Mined == now < MaxTime /\ now' = now + 1

\* An emitted event: its name and its arguments (for AuctionCreated the
\* filter is the one of the call, and amount is minimumBid).
Event(name, filterHash, who, vault, amount) ==
    [name |-> name, filterHash |-> filterHash, who |-> who, vault |-> vault,
     amount |-> amount]

CallOf(op, sender) == [NoCall EXCEPT !.op = op, !.sender = sender]

(***************************************************************************)
(* placeBid                                                                *)
(***************************************************************************)
\* if (auction.currentBidder == address(0) && auction.currentBid == 0)
isFirstBid(auction) == auction.currentBidder = Zero /\ auction.currentBid = 0

\* Mutant of initAuction: the auction is not switched on.
initAuctionInactive(auction, filter, value) ==
    [auction EXCEPT !.filter = filter, !.minimumBid = value]

\* The first bid initialises the auction.
initAuction(auction, filter, value) ==
    [auction EXCEPT !.filter = filter, !.isActive = TRUE, !.minimumBid = value]

\* Mutant of refundPrevious: the auction's minimum bid is refunded.
refundMinimumBid(bal, auction) == Transfer(bal, auction.currentBidder, auction.minimumBid)

\* payable(auction.currentBidder).transfer(auction.currentBid)
refundPrevious(bal, auction) == Transfer(bal, auction.currentBidder, auction.currentBid)

\* Mutant of recordBid: a new bid re-opens a paid-out auction.
recordBidReopens(auction, sender, value, timestamp) ==
    [auction EXCEPT !.currentBidder = sender, !.currentBid = value,
                    !.lastBidTime = timestamp, !.isExecuted = FALSE]

\* The three writes that end placeBid.
recordBid(auction, sender, value, timestamp) ==
    [auction EXCEPT !.currentBidder = sender, !.currentBid = value,
                    !.lastBidTime = timestamp]

\* Mutant of placeBidError: topic0 is not looked at.
placeBidErrorAnyTopic0(filter, value, auction, refund) ==
    IF filter.contractAddress = Zero THEN "InvalidContractAddress"
    ELSE IF value = 0 THEN "ZeroBid"
    ELSE IF isFirstBid(auction) THEN "ok"
    ELSE IF value < requiredBid(auction.currentBid) THEN "BidTooLow"
    ELSE IF ~refund.ok THEN "TransferFailed"
    ELSE "ok"

\* The revert error of placeBid, or "ok".
placeBidError(filter, value, auction, refund) ==
    IF filter.contractAddress = Zero THEN "InvalidContractAddress"
    ELSE IF filter.topic0 = ZeroBytes THEN "InvalidTopic0"
    ELSE IF value = 0 THEN "ZeroBid"
    ELSE IF isFirstBid(auction) THEN "ok"
    ELSE IF value < requiredBid(auction.currentBid) THEN "BidTooLow"
    ELSE IF ~refund.ok THEN "TransferFailed"
    ELSE "ok"

PlaceBid(sender, filter, value) ==
    LET filterHash == getFilterHash(filter)
        auction == auctions[filterHash]
        first == isFirstBid(auction)
        paid == Deposit(balances, sender, value)
        refund == refundPrevious(paid, auction)
        err == placeBidError(filter, value, auction, refund)
        c == [CallOf("placeBid", sender) EXCEPT
                 !.filter = filter, !.filterHash = filterHash, !.value = value]
        bidPlaced == Event("BidPlaced", filterHash, sender, Zero, value)
        created == Event("AuctionCreated", filterHash, Zero, Zero, value)
    IN  /\ LastCallMined
        /\ balances[sender] >= value
        /\ IF err # "ok"
           THEN Reverts([c EXCEPT
                   !.err = err,
                   !.errArgs = IF err = "BidTooLow"
                               THEN <<requiredBid(auction.currentBid), value>>
                               ELSE <<>>])
           ELSE /\ Mined
                /\ auctions' = [auctions EXCEPT ![filterHash] =
                      IF first
                      THEN recordBid(initAuction(auction, filter, value), sender, value, now')
                      ELSE recordBid(auction, sender, value, now')]
                /\ balances' = IF first THEN paid ELSE refund.bal
                /\ call' = [c EXCEPT
                      !.events = IF first THEN <<created, bidPlaced>> ELSE <<bidPlaced>>,
                      !.transfers = IF first THEN <<>> ELSE refund.sent]
                /\ UNCHANGED <<nonces, owner, executor, withdrawn, accepted>>


(***************************************************************************)
(* withdrawWinnings                                                        *)
(***************************************************************************)
\* A signature is "malformed" (its length is not 65) or the signature of a
\* key holder over the message hash of (filterHash, vault, nonce, ledger).
Malformed == [signer |-> Zero, filterHash |-> NoHash, vault |-> Zero, nonce |-> 0,
              ledger |-> Zero]

Sign(signer, filterHash, vault, nonce, ledger) ==
    [signer |-> signer, filterHash |-> filterHash, vault |-> vault, nonce |-> nonce,
     ledger |-> ledger]

\* keccak256("\x19Ethereum Signed Message:\n32" ++
\*           keccak256(abi.encode(filterHash, vault, nonce, address(this))))
\* as the tuple it is an injective image of.
messageHash(filterHash, vault, nonce) == <<filterHash, vault, nonce, Ledger>>

\* _recoverSigner: address(0) for a signature of the wrong length, the
\* signer for a signature over this very hash, and an address nobody
\* controls for a signature over any other hash.
recoverSigner(hash, signature) ==
    IF signature = Malformed THEN Zero
    ELSE IF <<signature.filterHash, signature.vault, signature.nonce, signature.ledger>> = hash
         THEN signature.signer
    ELSE Unrelated

\* The signatures a caller tries for the arguments (filterHash, vault, nonce):
\* none, the right message signed by each key holder, and messages that
\* differ from the right one in a single field, signed by an executor key.
SignaturesFor(filterHash, vault, nonce) ==
    {Malformed}
    \cup {Sign(k, filterHash, vault, nonce, Ledger) : k \in Keyholders}
    \cup {Sign(Exec1, filterHash, vault, nonce, OtherLedger)}
    \cup {Sign(Exec1, h, vault, nonce, Ledger) : h \in AuctionHashes}
    \cup {Sign(Exec1, filterHash, v, nonce, Ledger) : v \in {Vault, Alice}}
    \cup {Sign(Exec1, filterHash, vault, n, Ledger) : n \in Nonces}

\* Mutant of withdrawWinningsError: isExecuted is not looked at.
withdrawWinningsErrorNoLatch(auction, vault, nonce, signer, payout) ==
    IF vault = Zero THEN "InvalidVaultAddress"
    ELSE IF ~auction.isActive THEN "AuctionNotActive"
    ELSE IF signer # executor THEN "InvalidSignature"
    ELSE IF nonce # nonces[executor] THEN "InvalidSignature"
    ELSE IF ~payout.ok THEN "TransferFailed"
    ELSE "ok"

\* Mutant of withdrawWinningsError: the nonce is not compared.
withdrawWinningsErrorAnyNonce(auction, vault, nonce, signer, payout) ==
    IF vault = Zero THEN "InvalidVaultAddress"
    ELSE IF auction.isExecuted THEN "AuctionAlreadyExecuted"
    ELSE IF ~auction.isActive THEN "AuctionNotActive"
    ELSE IF signer # executor THEN "InvalidSignature"
    ELSE IF ~payout.ok THEN "TransferFailed"
    ELSE "ok"

\* The revert error of withdrawWinnings, or "ok".
withdrawWinningsError(auction, vault, nonce, signer, payout) ==
    IF vault = Zero THEN "InvalidVaultAddress"
    ELSE IF auction.isExecuted THEN "AuctionAlreadyExecuted"
    ELSE IF ~auction.isActive THEN "AuctionNotActive"
    ELSE IF signer # executor THEN "InvalidSignature"
    ELSE IF nonce # nonces[executor] THEN "InvalidSignature"
    ELSE IF ~payout.ok THEN "TransferFailed"
    ELSE "ok"

WithdrawWinnings(filterHash, vault, nonce, signature) ==
    LET auction == auctions[filterHash]
        winner == auction.currentBidder
        amount == auction.currentBid
        signer == recoverSigner(messageHash(filterHash, vault, nonce), signature)
        payout == Transfer(balances, vault, amount)
        err == withdrawWinningsError(auction, vault, nonce, signer, payout)
        c == [CallOf("withdrawWinnings", Relayer) EXCEPT
                 !.filterHash = filterHash, !.vault = vault, !.nonce = nonce,
                 !.signer = signer]
    IN  /\ LastCallMined
        /\ IF err # "ok"
           THEN Reverts([c EXCEPT !.err = err])
           ELSE /\ Mined
                /\ auctions' = [auctions EXCEPT ![filterHash].isExecuted = TRUE]
                /\ nonces' = [nonces EXCEPT ![executor] = @ + 1]
                /\ balances' = payout.bal
                /\ call' = [c EXCEPT
                      !.events = <<Event("WinningsWithdrawn", filterHash, winner, vault,
                                         amount),
                                   Event("AuctionWon", filterHash, winner, Zero, amount)>>,
                      !.transfers = payout.sent]
                /\ withdrawn' = [withdrawn EXCEPT ![filterHash] = @ + 1]
                /\ accepted' = accepted \cup {<<signer, filterHash, vault, nonce>>}
                /\ UNCHANGED <<owner, executor>>

(***************************************************************************)
(* Owner functions                                                         *)
(***************************************************************************)
\* Mutant of onlyOwner: the modifier lets every caller through.
onlyOwnerAnyCaller(sender) == TRUE

\* modifier onlyOwner
onlyOwner(sender) == sender = owner

SetAuctionActive(sender, filterHash, active) ==
    LET c == [CallOf("setAuctionActive", sender) EXCEPT !.filterHash = filterHash]
    IN  /\ LastCallMined
        /\ IF ~onlyOwner(sender)
           THEN Reverts([c EXCEPT !.err = "OnlyOwner"])
           ELSE /\ Mined
                /\ auctions' = [auctions EXCEPT ![filterHash].isActive = active]
                /\ call' = c
                /\ UNCHANGED <<nonces, owner, executor, balances, withdrawn, accepted>>

SetExecutor(sender, _executor) ==
    LET c == CallOf("setExecutor", sender)
    IN  /\ LastCallMined
        /\ IF ~onlyOwner(sender)
           THEN Reverts([c EXCEPT !.err = "OnlyOwner"])
           ELSE /\ Mined
                /\ executor' = _executor
                /\ call' = c
                /\ UNCHANGED <<auctions, nonces, owner, balances, withdrawn, accepted>>

\* payable(owner).transfer(address(this).balance)
Withdraw(sender) ==
    LET c == CallOf("withdraw", sender)
        payout == Transfer(balances, owner, balances[Ledger])
    IN  /\ LastCallMined
        /\ IF ~onlyOwner(sender)
           THEN Reverts([c EXCEPT !.err = "OnlyOwner"])
           ELSE IF ~payout.ok
           THEN Reverts([c EXCEPT !.err = "TransferFailed"])
           ELSE /\ Mined
                /\ balances' = payout.bal
                /\ call' = [c EXCEPT !.transfers = payout.sent]
                /\ UNCHANGED <<auctions, nonces, owner, executor, withdrawn, accepted>>

EmergencyRefund(sender, filterHash) ==
    LET c == [CallOf("emergencyRefund", sender) EXCEPT !.filterHash = filterHash]
        auction == auctions[filterHash]
        refund == Transfer(balances, auction.currentBidder, auction.currentBid)
    IN  /\ LastCallMined
        /\ IF ~onlyOwner(sender)
           THEN Reverts([c EXCEPT !.err = "OnlyOwner"])
           ELSE IF auction.currentBidder = Zero
           THEN /\ Mined
                /\ call' = c
                /\ UNCHANGED <<auctions, nonces, owner, executor, balances, withdrawn,
                               accepted>>
           ELSE IF ~refund.ok
           THEN Reverts([c EXCEPT !.err = "TransferFailed"])
           ELSE /\ Mined
                /\ auctions' = [auctions EXCEPT
                      ![filterHash].currentBidder = Zero, ![filterHash].currentBid = 0]
                /\ balances' = refund.bal
                /\ call' = [c EXCEPT !.transfers = refund.sent]
                /\ UNCHANGED <<nonces, owner, executor, withdrawn, accepted>>

(***************************************************************************)
(* The ledger as a state machine.                                          *)
(***************************************************************************)
\* The ledger on its own: the off-chain services do not run.
OffChainIdle == UNCHANGED offchainVars

Next ==
    \/ \E b \in BidCalls : PlaceBid(b[1], b[2], b[3]) /\ OffChainIdle
    \/ \E filterHash \in AuctionHashes, vault \in Vaults, nonce \in Nonces :
          \E signature \in SignaturesFor(filterHash, vault, nonce) :
             WithdrawWinnings(filterHash, vault, nonce, signature) /\ OffChainIdle
    \/ \E sender \in AdminCallers, filterHash \in AuctionHashes, active \in BOOLEAN :
          SetAuctionActive(sender, filterHash, active) /\ OffChainIdle
    \/ \E sender \in AdminCallers, _executor \in Executors :
          SetExecutor(sender, _executor) /\ OffChainIdle
    \/ \E sender \in AdminCallers : Withdraw(sender) /\ OffChainIdle
    \/ \E sender \in AdminCallers, filterHash \in AuctionHashes :
          EmergencyRefund(sender, filterHash) /\ OffChainIdle

Spec == Init /\ [][Next]_vars


(***************************************************************************)
(* Properties of the ledger.  A step of the ledger is one transaction:     *)
(* the unprimed variables are the state it ran on, call' is what it did.   *)
(***************************************************************************)
\* The ledger state a reverted transaction must leave alone.
LedgerUnchanged == UNCHANGED <<auctions, nonces, owner, executor, balances>>

\* C1, as stated: on an existing auction with current bid c, a bid a is
\* accepted exactly when a >= floor(c * 101 / 100), and a bid one unit below
\* that threshold is rejected with BidTooLow(threshold, a), nothing changing
\* (a bid of nothing is ZeroBid's, see C10, and is left out of the error).
C1_AcceptedIffThreshold ==
    [][(call'.op = "placeBid" /\ auctionExists(call'.filterHash)) =>
         LET c == auctions[call'.filterHash].currentBid
             a == call'.value
             threshold == (c * 101) \div 100
         IN  /\ (call'.err = "ok") <=> (a >= threshold)
             /\ (a = threshold - 1) =>
                   /\ a # 0 => call'.err = "BidTooLow" /\ call'.errArgs = <<threshold, a>>
                   /\ LedgerUnchanged]_vars

\* C1, amended: the bid is accepted exactly when a >= floor(c * 101 / 100)
\* and the previous bidder accepts the refund; a bid one unit below the
\* threshold is rejected and changes nothing, with BidTooLow(threshold, a)
\* unless a is zero (ZeroBid).
C1_AcceptedIffThresholdAndRefund ==
    [][(call'.op = "placeBid" /\ auctionExists(call'.filterHash)) =>
         LET c == auctions[call'.filterHash].currentBid
             a == call'.value
             threshold == (c * 101) \div 100
         IN  /\ (call'.err = "ok") <=>
                   (a >= threshold /\ CanReceive(auctions[call'.filterHash].currentBidder))
             /\ (a = threshold - 1) =>
                   /\ call'.err = IF a = 0 THEN "ZeroBid" ELSE "BidTooLow"
                   /\ a # 0 => call'.errArgs = <<threshold, a>>
                   /\ LedgerUnchanged]_vars

\* A bid of 100 on a current bid of 100 has just been rejected: 101 is required.
C1_Witness ==
    /\ call.op = "placeBid"
    /\ call.err = "BidTooLow"
    /\ call.errArgs = <<101, 100>>
    /\ auctions[call.filterHash].currentBid = 100


\* C2: a bid that outbids an existing bidder pays the previous bidder exactly
\* the previous bid, in the step that records the new bidder and bid, and
\* nobody else receives anything in that step.
C2_ExactRefundToPreviousBidder ==
    [][(call'.op = "placeBid" /\ call'.err = "ok" /\ auctionExists(call'.filterHash)) =>
         LET h == call'.filterHash
             previous == auctions[h].currentBidder
             c == auctions[h].currentBid
             a == call'.value
         IN  /\ call'.transfers = <<[to |-> previous, amount |-> c]>>
             /\ \A x \in Addresses :
                   balances'[x] = balances[x]
                                  + (IF x = previous THEN c ELSE 0)
                                  - (IF x = call'.sender THEN a ELSE 0)
                                  + (IF x = Ledger THEN a - c ELSE 0)
             /\ auctions'[h].currentBidder = call'.sender
             /\ auctions'[h].currentBid = a]_vars

\* Somebody has just outbid another account, which got its 100 back.
C2_Witness ==
    /\ call.op = "placeBid"
    /\ call.err = "ok"
    /\ Len(call.transfers) = 1
    /\ call.transfers[1].to # call.sender
    /\ call.transfers[1].amount = 100
    /\ call.value = 101

\* C3: on a filterHash without an auction (auctionExists false, no winner)
\* an accepted placeBid creates it: currentBidder is the sender, minimumBid
\* and currentBid are the amount, isActive is true, the stored filter is the
\* filter of the bid; afterwards auctionExists holds and getWinner is the sender.
C3_FirstBidCreatesAuction ==
    [][(call'.op = "placeBid" /\ call'.err = "ok" /\ ~auctionExists(call'.filterHash)) =>
         LET h == call'.filterHash
             after == auctions'[h]
         IN  /\ getWinner(h) = Zero
             /\ after.currentBidder = call'.sender
             /\ after.minimumBid = call'.value
             /\ after.currentBid = call'.value
             /\ after.isActive
             /\ after.filter = call'.filter
             /\ getFilterHash(after.filter) = h
             /\ after.currentBidder # Zero \/ after.currentBid > 0
             /\ call'.events[1].name = "AuctionCreated"
             /\ call'.events[1].amount = call'.value]_vars

\* Bob's first bid on FilterB has just created that auction.
C3_Witness ==
    /\ call.op = "placeBid"
    /\ call.err = "ok"
    /\ call.filter = FilterB
    /\ Len(call.events) = 2
    /\ auctionExists(call.filterHash)
    /\ getWinner(call.filterHash) = call.sender
    /\ auctions[call.filterHash].minimumBid = call.value

\* C4, as stated: withdrawWinnings succeeds at most once per filterHash, and
\* after a success every later withdrawWinnings for that filterHash fails
\* with AuctionAlreadyExecuted.
C4_SecondWithdrawalAlreadyExecuted ==
    [][/\ \A h \in FilterHashes : withdrawn'[h] <= 1
       /\ (call'.op = "withdrawWinnings" /\ withdrawn[call'.filterHash] >= 1) =>
             call'.err = "AuctionAlreadyExecuted"]_vars

\* C4, amended: withdrawWinnings succeeds at most once per filterHash; after
\* a success every later withdrawWinnings for that filterHash fails and
\* changes nothing, with AuctionAlreadyExecuted when its vault is not the
\* zero address and with InvalidVaultAddress when it is.
C4_WithdrawAtMostOnce ==
    [][/\ \A h \in FilterHashes : withdrawn'[h] <= 1
       /\ (call'.op = "withdrawWinnings" /\ withdrawn[call'.filterHash] >= 1) =>
             /\ call'.err = IF call'.vault = Zero THEN "InvalidVaultAddress"
                            ELSE "AuctionAlreadyExecuted"
             /\ LedgerUnchanged]_vars

\* A second, correctly signed withdrawal of a paid-out auction that the
\* owner has paused since has just been refused.
C4_Witness ==
    /\ call.op = "withdrawWinnings"
    /\ call.err = "AuctionAlreadyExecuted"
    /\ withdrawn[call.filterHash] = 1
    /\ ~auctions[call.filterHash].isActive
    /\ call.signer = executor
    /\ call.nonce = nonces[executor]

\* C5: withdrawWinnings succeeds only on an existing, active, not yet
\* executed auction and with a signature of the current executor; otherwise
\* it fails and changes nothing.
C5_WithdrawOnlyFromExistingAuction ==
    [][(call'.op = "withdrawWinnings") =>
         LET h == call'.filterHash
             allowed == /\ auctionExists(h)
                        /\ auctions[h].isActive
                        /\ ~auctions[h].isExecuted
                        /\ call'.signer = executor
                        /\ call'.signer \in Keyholders
         IN  /\ call'.err = "ok" => allowed
             /\ call'.err # "ok" => LedgerUnchanged]_vars


\* C6, as stated: a withdrawWinnings whose nonce is not the executor's
\* counter fails with InvalidSignature; a successful one raises the
\* executor's counter by exactly one; no step lowers any counter; no signed
\* message is accepted twice.
C6_StaleNonceInvalidSignature ==
    [][/\ \A a \in Addresses : nonces'[a] >= nonces[a]
       /\ (call'.op = "withdrawWinnings") =>
             /\ call'.nonce # nonces[executor] => call'.err = "InvalidSignature"
             /\ call'.err = "ok" =>
                   /\ nonces'[executor] = nonces[executor] + 1
                   /\ <<call'.signer, call'.filterHash, call'.vault, call'.nonce>>
                         \notin accepted]_vars

\* C6, amended: such a withdrawWinnings always fails and changes nothing; the
\* error is InvalidSignature when the call gets as far as the signature
\* check (the vault is not zero, the auction is active and not executed),
\* and the error of the earlier check otherwise.  The rest is as stated.
C6_NonceReplayProtection ==
    [][/\ \A a \in Addresses : nonces'[a] >= nonces[a]
       /\ (call'.op = "withdrawWinnings") =>
             /\ call'.nonce # nonces[executor] =>
                   /\ call'.err # "ok"
                   /\ LedgerUnchanged
                   /\ call'.err =
                        IF call'.vault = Zero THEN "InvalidVaultAddress"
                        ELSE IF auctions[call'.filterHash].isExecuted
                             THEN "AuctionAlreadyExecuted"
                        ELSE IF ~auctions[call'.filterHash].isActive
                             THEN "AuctionNotActive"
                        ELSE "InvalidSignature"
             /\ call'.err = "ok" =>
                   /\ nonces'[executor] = nonces[executor] + 1
                   /\ \A a \in Addresses \ {executor} : nonces'[a] = nonces[a]
                   /\ <<call'.signer, call'.filterHash, call'.vault, call'.nonce>>
                         \notin accepted]_vars

\* The executor's signature with a nonce it has used before has just been
\* refused on an auction that is active and not paid out.
C6_Witness ==
    /\ call.op = "withdrawWinnings"
    /\ call.err = "InvalidSignature"
    /\ call.signer = executor
    /\ call.nonce < nonces[executor]
    /\ \E m \in accepted : m[1] = call.signer /\ m[4] = call.nonce
    /\ auctions[call.filterHash].isActive
    /\ ~auctions[call.filterHash].isExecuted

\* C7: apart from the refund of an outbid bidder inside placeBid, only a
\* successful withdrawWinnings moves ether out of the ledger.
C7_OnlyWithdrawWinningsPaysOut ==
    [][(\E i \in 1..Len(call'.transfers) : call'.transfers[i].amount > 0) =>
          call'.op \in {"withdrawWinnings", "placeBid"}]_vars

\* C8: when the previous bidder does not take the refund, placeBid reverts:
\* no auction field and no balance changes and no event is emitted; and no
\* step replaces a bidder without paying that bidder its bid back.
C8_RefundFailureAbortsBid ==
    [][/\ (/\ call'.op = "placeBid"
           /\ auctionExists(call'.filterHash)
           /\ ~CanReceive(auctions[call'.filterHash].currentBidder)) =>
             /\ call'.err # "ok"
             /\ LedgerUnchanged
             /\ call'.events = <<>>
             /\ call'.transfers = <<>>
       /\ \A h \in FilterHashes :
             (auctions[h].currentBidder # Zero /\ auctions'[h] # auctions[h]
              /\ (auctions'[h].currentBidder # auctions[h].currentBidder
                  \/ auctions'[h].currentBid # auctions[h].currentBid)) =>
                /\ call'.transfers = <<[to |-> auctions[h].currentBidder,
                                        amount |-> auctions[h].currentBid]>>
                /\ auctions[h].currentBidder # call'.sender =>
                      balances'[auctions[h].currentBidder] =
                         balances[auctions[h].currentBidder] + auctions[h].currentBid]_vars

\* A bid high enough to outbid a bidder that rejects ether has just reverted.
C8_Witness ==
    /\ call.op = "placeBid"
    /\ call.err = "TransferFailed"
    /\ call.value >= (auctions[call.filterHash].currentBid * 101) \div 100
    /\ auctions[call.filterHash].currentBidder = Rejector
    /\ call.events = <<>>

\* C9: every accepted rebid is strictly higher than the bid it replaces.
C9_RebidStrictlyHigher ==
    [][(/\ call'.op = "placeBid"
        /\ call'.err = "ok"
        /\ auctions[call'.filterHash].currentBid > 0) =>
          auctions'[call'.filterHash].currentBid > auctions[call'.filterHash].currentBid]_vars

\* The spec's InvalidFilter: the contract has one error per field.
InvalidFilter == {"InvalidContractAddress", "InvalidTopic0"}

OwnerFunctions == {"setAuctionActive", "setExecutor", "withdraw", "emergencyRefund"}

\* C11: setAuctionActive, emergencyRefund, setExecutor and withdraw, called
\* by anyone but the owner, fail with OnlyOwner and change no auction, no
\* executor designation and no balance.
C11_OnlyOwnerFunctions ==
    [][(call'.op \in OwnerFunctions /\ call'.sender # owner) =>
          /\ call'.err = "OnlyOwner"
          /\ LedgerUnchanged
          /\ call'.events = <<>>
          /\ call'.transfers = <<>>]_vars

\* A stranger's withdraw() has just been refused while the ledger holds a bid.
C11_Witness ==
    /\ call.op = "withdraw"
    /\ call.sender = Alice
    /\ owner # Alice
    /\ call.err = "OnlyOwner"
    /\ balances[Ledger] > 0

SyncBids == {<<Alice, 1>>, <<Bob, 2>>}
SyncFilter == FilterA
SyncHash == getFilterHash(SyncFilter)

\* bigint.toString(): the decimal numeral, one per number.
toString(n) == [decimal |-> n]

\* The column current_bidder before any bid: SQL NULL.
Null == "null"

\* The tables as one value.
Db == [auctions |-> eventAuctions, bids |-> auctionBids]
EmptyDb == [auctions |-> <<>>, bids |-> {}]

\* The logs of a mined transaction: its events with the block they are in
\* and their index in it (every transaction of the model is a block).
RECURSIVE Stamp(_, _, _)
Stamp(events, blockNumber, logIndex) ==
    IF events = <<>> THEN <<>>
    ELSE <<[name |-> Head(events).name, filterHash |-> Head(events).filterHash,
            who |-> Head(events).who, vault |-> Head(events).vault,
            amount |-> Head(events).amount,
            blockNumber |-> blockNumber, transactionIndex |-> 0,
            logIndex |-> logIndex]>>
         \o Stamp(Tail(events), blockNumber, logIndex + 1)

\* handleAuctionCreated: db.insert(eventAuctions) ... onConflictDoUpdate
upsertAuction(db, log) ==
    LET key == log.filterHash
        row == IF key \in DOMAIN db.auctions
               THEN [db.auctions[key] EXCEPT !.minimumBid = toString(log.amount),
                                             !.isActive = TRUE]
               ELSE [eventSignature |-> key, currentBidder |-> Null,
                     currentBid |-> toString(0), minimumBid |-> toString(log.amount),
                     isActive |-> TRUE]
    IN  [db EXCEPT !.auctions =
            [k \in DOMAIN db.auctions \cup {key} |-> IF k = key THEN row ELSE db.auctions[k]]]

\* The primary key of a bid row: `${filterHash}-${bidder}-${Date.now()}`
bidId(log, ms) == <<log.filterHash, log.who, ms>>

\* handleBidPlaced, first write: db.insert(auctionBids).  A row with the
\* same id makes the insert throw, which ends the handler.
insertBid(db, log, ms) ==
    IF \E r \in db.bids : r.id = bidId(log, ms)
    THEN [ok |-> FALSE, db |-> db]
    ELSE [ok |-> TRUE,
          db |-> [db EXCEPT !.bids = @ \cup
                    {[id |-> bidId(log, ms), eventSignature |-> log.filterHash,
                      bidder |-> log.who, amount |-> toString(log.amount),
                      isWinning |-> TRUE]}]]

\* handleBidPlaced, second write: db.update(eventAuctions) where
\* eventSignature = filterHash; no row, no change.
updateWinner(db, log) ==
    [db EXCEPT !.auctions =
        [k \in DOMAIN db.auctions |->
            IF k = log.filterHash
            THEN [db.auctions[k] EXCEPT !.currentBidder = log.who,
                                        !.currentBid = toString(log.amount)]
            ELSE db.auctions[k]]]

\* handleBidPlaced, third write: every bid of the filterHash stops winning.
clearWinning(db, log) ==
    [db EXCEPT !.bids =
        {IF r.eventSignature = log.filterHash THEN [r EXCEPT !.isWinning = FALSE] ELSE r
           : r \in db.bids}]

\* handleBidPlaced, fourth write: the bids of the filterHash with this
\* bidder and this amount win.
setWinning(db, log) ==
    [db EXCEPT !.bids =
        {IF /\ r.eventSignature = log.filterHash
            /\ r.bidder = log.who
            /\ r.amount = toString(log.amount)
         THEN [r EXCEPT !.isWinning = TRUE] ELSE r
           : r \in db.bids}]

\* handleWinningsWithdrawn: db.update(eventAuctions).set({isActive: false})
closeAuction(db, log) ==
    [db EXCEPT !.auctions =
        [k \in DOMAIN db.auctions |->
            IF k = log.filterHash THEN [db.auctions[k] EXCEPT !.isActive = FALSE]
            ELSE db.auctions[k]]]

\* A handler in flight: the log it handles and the write it does next.
Handler(log) == [log |-> log, pc |-> 1]

\* The next write of a handler: the tables after it, and whether the
\* handler has returned.
handlerStep(db, h, ms) ==
    IF h.log.name = "AuctionCreated" THEN [db |-> upsertAuction(db, h.log), done |-> TRUE]
    ELSE IF h.log.name = "WinningsWithdrawn"
    THEN [db |-> closeAuction(db, h.log), done |-> TRUE]
    ELSE IF h.pc = 1
    THEN LET r == insertBid(db, h.log, ms) IN [db |-> r.db, done |-> ~r.ok]
    ELSE IF h.pc = 2 THEN [db |-> updateWinner(db, h.log), done |-> FALSE]
    ELSE IF h.pc = 3 THEN [db |-> clearWinning(db, h.log), done |-> FALSE]
    ELSE [db |-> setWinning(db, h.log), done |-> TRUE]

\* A handler run from its call to its return with no other handler in
\* flight, its insert made at millisecond ms.
RECURSIVE runFrom(_, _, _)
runFrom(db, h, ms) ==
    LET r == handlerStep(db, h, ms)
    IN  IF r.done THEN r.db ELSE runFrom(r.db, [h EXCEPT !.pc = @ + 1], ms)

runHandler(db, log, ms) == runFrom(db, Handler(log), ms)


\* Nothing of AuctionSync is in the middle of a run.  The handlers' awaits
\* resolve without going back to the event loop, so no watch callback, no
\* continuation of syncHistoricalEvents and (as the handlers never read the
\* chain) no transaction needs looking at before the handlers in flight
\* have returned.
Quiet == running = <<>> /\ backfill.pc # "processing"

\* The events of the transaction just mined join the chain's log.
Emits ==
    /\ call'.err = "ok"
    /\ logs' = logs \o Stamp(call'.events, now', 0)
    /\ UNCHANGED <<cursor, running, backfill, eventAuctions, auctionBids, clockMs,
                   sameTick, listenerVars, hookVars>>

SyncPlaceBid(sender, value) ==
    Quiet /\ PlaceBid(sender, SyncFilter, value) /\ Emits

SyncWithdrawWinnings ==
    /\ Quiet
    /\ WithdrawWinnings(SyncHash, Vault, nonces[executor],
                        Sign(executor, SyncHash, Vault, nonces[executor], Ledger))
    /\ Emits

SyncEmergencyRefund ==
    Quiet /\ EmergencyRefund(Owner, SyncHash) /\ Emits

\* The logs named `name` among the first `head` logs of the chain.
getLogs(name, first, head) ==
    LET wanted(l) == l.name = name
    IN  SelectSeq(SubSeq(logs, first, head), wanted)

\* watchEvent's onLogs: the watcher of one event hands over the logs it has
\* not seen yet, and the callback starts one handler per log without
\* awaiting any.
Deliver(name) ==
    LET batch == getLogs(name, cursor[name] + 1, Len(logs))
    IN  /\ Quiet
        /\ batch # <<>>
        /\ running' = [i \in 1..Len(batch) |-> Handler(batch[i])]
        /\ cursor' = [cursor EXCEPT ![name] = Len(logs)]
        /\ sameTick' = FALSE
        /\ UNCHANGED <<hookVars, listenerVars, ledgerVars, logs, backfill, eventAuctions, auctionBids, clockMs>>

\* What Date.now() may return to an insert: a later millisecond than the
\* latest insert's, or the same one if that insert was made in this very
\* turn of the event loop.
NowMs == IF sameTick THEN {clockMs, clockMs + 1} ELSE {clockMs + 1}

\* The handler at the head of the queue makes its next write and, unless it
\* has returned, queues up behind the others.
Step ==
    /\ running # <<>>
    /\ LET h == Head(running)
           inserts == h.log.name = "BidPlaced" /\ h.pc = 1
       IN  \E ms \in (IF inserts THEN NowMs ELSE {clockMs}) :
              LET r == handlerStep(Db, h, ms)
              IN  /\ eventAuctions' = r.db.auctions
                  /\ auctionBids' = r.db.bids
                  /\ running' = IF r.done THEN Tail(running)
                                ELSE Append(Tail(running), [h EXCEPT !.pc = @ + 1])
                  /\ clockMs' = ms
                  /\ sameTick' = (sameTick \/ inserts)
    /\ UNCHANGED <<hookVars, listenerVars, ledgerVars, logs, cursor, backfill>>

\* The orders in which a list of n fetched logs may come back.
Orders(n) == {f \in [1..n -> 1..n] : \A i, j \in 1..n : i # j => f[i] # f[j]}
Reorder(seq, f) == [i \in 1..Len(seq) |-> seq[f[i]]]

\* Number(a.blockNumber) - Number(b.blockNumber) ||
\* Number(a.transactionIndex) - Number(b.transactionIndex)   < 0
Before(a, b) ==
    \/ a.blockNumber < b.blockNumber
    \/ a.blockNumber = b.blockNumber /\ a.transactionIndex < b.transactionIndex

RECURSIVE insertSorted(_, _)
insertSorted(sorted, x) ==
    IF sorted = <<>> THEN <<x>>
    ELSE IF Before(x, Head(sorted)) THEN <<x>> \o sorted
    ELSE <<Head(sorted)>> \o insertSorted(Tail(sorted), x)

\* Array.prototype.sort with that comparison (a stable sort).
RECURSIVE sortLogs(_)
sortLogs(seq) ==
    IF seq = <<>> THEN <<>>
    ELSE insertSorted(sortLogs(SubSeq(seq, 1, Len(seq) - 1)), seq[Len(seq)])

\* syncHistoricalEvents up to its three getLogs: the block range ends at the
\* current block; the AuctionCreated logs are taken as they come, the
\* BidPlaced and the WinningsWithdrawn logs are sorted.
BackfillFetch ==
    LET head == Len(logs)
        created == getLogs("AuctionCreated", 1, head)
        bids == getLogs("BidPlaced", 1, head)
        withdrawals == getLogs("WinningsWithdrawn", 1, head)
    IN  /\ Quiet
        /\ backfill.pc = "idle"
        /\ logs # <<>>
        /\ \E fc \in Orders(Len(created)), fb \in Orders(Len(bids)),
              fw \in Orders(Len(withdrawals)) :
              backfill' = [pc |-> "fetched", head |-> head,
                           created |-> Reorder(created, fc),
                           todo |-> Reorder(created, fc)
                                    \o sortLogs(Reorder(bids, fb))
                                    \o sortLogs(Reorder(withdrawals, fw))]
        /\ UNCHANGED <<hookVars, listenerVars, ledgerVars, logs, cursor, running, eventAuctions, auctionBids,
                       clockMs, sameTick>>

\* syncHistoricalEvents, its three loops: `await this.handle...(log.args)`,
\* one log after the other.
BackfillHandle ==
    /\ backfill.pc \in {"fetched", "processing"}
    /\ running = <<>>
    /\ backfill.todo # <<>>
    /\ running' = <<Handler(Head(backfill.todo))>>
    /\ backfill' = [backfill EXCEPT !.pc = "processing", !.todo = Tail(@)]
    /\ sameTick' = (backfill.pc = "processing" /\ sameTick)
    /\ UNCHANGED <<hookVars, listenerVars, ledgerVars, logs, cursor, eventAuctions, auctionBids, clockMs>>

BackfillReturn ==
    /\ backfill.pc \in {"fetched", "processing"}
    /\ running = <<>>
    /\ backfill.todo = <<>>
    /\ backfill' = [backfill EXCEPT !.pc = "done"]
    /\ UNCHANGED <<hookVars, listenerVars, ledgerVars, logs, cursor, running, eventAuctions, auctionBids,
                   clockMs, sameTick>>

SyncNext ==
    \/ \E bid \in SyncBids : SyncPlaceBid(bid[1], bid[2])
    \/ SyncWithdrawWinnings
    \/ SyncEmergencyRefund
    \/ \E name \in WatchedEvents : Deliver(name)
    \/ Step
    \/ BackfillFetch
    \/ BackfillHandle
    \/ BackfillReturn

SyncSpec == Init /\ [][SyncNext]_vars


(***************************************************************************)
(* Properties of AuctionSync.                                              *)
(***************************************************************************)
\* The filterHashes the chain's log speaks of.
LoggedHashes == {logs[i].filterHash : i \in 1..Len(logs)}

\* Every log has been handed to its handler by the live watchers, every
\* handler has returned, and syncHistoricalEvents is not under way.
SyncSettled ==
    /\ running = <<>>
    /\ backfill.pc \in {"idle", "done"}
    /\ \A name \in WatchedEvents : getLogs(name, cursor[name] + 1, Len(logs)) = <<>>

\* What a bid row says, its id and its timestamps apart.
BidOf(r) == [bidder |-> r.bidder, amount |-> r.amount, isWinning |-> r.isWinning]
BidRows(db, h) == {r \in db.bids : r.eventSignature = h}
WinningBids(db, h) == {BidOf(r) : r \in {w \in BidRows(db, h) : w.isWinning}}

\* The latest BidPlaced of a filterHash in chain order.
LastBid(h) ==
    LET bids == {i \in 1..Len(logs) : logs[i].name = "BidPlaced" /\ logs[i].filterHash = h}
    IN  logs[CHOOSE i \in bids : \A j \in bids : j <= i]

\* C13: of the auction_bids rows of a filterHash exactly one has isWinning,
\* the row of the latest accepted bid; looked at where the claim is
\* weakest, when no handler is in flight.
C13_ExactlyOneWinningBid ==
    running = <<>> =>
       \A h \in LoggedHashes :
          BidRows(Db, h) # {} =>
             Cardinality({r \in BidRows(Db, h) : r.isWinning}) = 1

\* Two tables hold the same for a filterHash, ids and timestamps apart:
\* the same event_auctions row, and as many auction_bids rows of each kind.
SameReadModel(a, b, h) ==
    /\ (h \in DOMAIN a.auctions) = (h \in DOMAIN b.auctions)
    /\ h \in DOMAIN a.auctions => a.auctions[h] = b.auctions[h]
    /\ \A r \in BidRows(a, h) \cup BidRows(b, h) :
          Cardinality({x \in BidRows(a, h) : BidOf(x) = BidOf(r)})
             = Cardinality({x \in BidRows(b, h) : BidOf(x) = BidOf(r)})

\* C14: on the tables as they are whenever no handler is in flight, handling
\* a watched event of the chain twice leaves what handling it once leaves.
C14_RedeliveryIdempotent ==
    running = <<>> =>
       \A i \in 1..Len(logs) :
          logs[i].name \in WatchedEvents =>
             LET once == runHandler(Db, logs[i], clockMs + 1)
                 twice == runHandler(once, logs[i], clockMs + 2)
             IN  SameReadModel(once, twice, logs[i].filterHash)

\* The watched logs applied one after the other in chain order, each handler
\* returning before the next starts, on empty tables.
RECURSIVE applyLive(_, _)
applyLive(db, n) ==
    IF n = 0 THEN db
    ELSE LET before == applyLive(db, n - 1)
         IN  IF logs[n].name \in WatchedEvents THEN runHandler(before, logs[n], n)
             ELSE before

\* What C15 compares: currentBidder, currentBid, minimumBid, isActive and
\* the winning bid of a filterHash.
FinalState(db, h) ==
    [auction |-> IF h \in DOMAIN db.auctions THEN db.auctions[h] ELSE Null,
     winning |-> WinningBids(db, h)]

\* C15: syncHistoricalEvents run on empty tables over the whole chain leaves
\* what the same events applied live in chain order leave; looked at where
\* the claim is weakest, when getLogs returned the logs in chain order.
C15_BackfillEqualsLive ==
    (/\ backfill.pc = "done"
     /\ backfill.head = Len(logs)
     /\ backfill.created = getLogs("AuctionCreated", 1, Len(logs))
     /\ \A name \in WatchedEvents : cursor[name] = 0) =>
       \A h \in LoggedHashes :
          FinalState(Db, h) = FinalState(applyLive(EmptyDb, Len(logs)), h)

\* C16: when the live handlers and syncHistoricalEvents have all returned,
\* the row of a filterHash that names a bidder names the bidder and the
\* amount of the latest bid in chain order, and that bid alone is winning.
C16_LastBidInChainOrderWins ==
    SyncSettled =>
       \A h \in LoggedHashes :
          (h \in DOMAIN eventAuctions /\ eventAuctions[h].currentBidder # Null) =>
             /\ eventAuctions[h].currentBidder = LastBid(h).who
             /\ eventAuctions[h].currentBid = toString(LastBid(h).amount)
             /\ WinningBids(Db, h) =
                   {[bidder |-> LastBid(h).who, amount |-> toString(LastBid(h).amount),
                     isWinning |-> TRUE]}

\* C17: with the live watchers alone, once every event of the ledger has
\* been handled, event_auctions names the ledger's currentBidder and
\* currentBid.
C17_ReadModelCatchesUp ==
    (SyncSettled /\ backfill.pc = "idle") =>
       \A h \in LoggedHashes :
          /\ h \in DOMAIN eventAuctions
          /\ eventAuctions[h].currentBidder =
                (IF auctions[h].currentBidder = Zero THEN Null
                 ELSE auctions[h].currentBidder)
          /\ eventAuctions[h].currentBid = toString(auctions[h].currentBid)

(***************************************************************************)
(* FlashblocksListener and EventMonitor: the WebSocket connection with its *)
(* reconnects, the registered event signatures, and the detected events    *)
(* on their way to the database and to HookExecutor.processEvent.          *)
(***************************************************************************)

\* The most handleEventDetected runs in flight at one time.
MaxInFlight == 4
\* The most WebSockets, besides the newest, that have not closed.
MaxReplaced == 1
\* The most reconnect timers pending at one time.
MaxTimers == 2

maxReconnectAttempts == 5

\* The close code of a normal closure.
NormalClosure == 1000

\* The close codes that the feed's socket ends with.
CloseCodes == {NormalClosure, 1006}

\* Event signatures: the same Transfer event on two contracts.
EventAbi(name, inputs) == [name |-> name, inputs |-> inputs, anonymous |-> FALSE]

TransferA ==
    [contractAddress |-> "TokenA", eventName |-> "Transfer",
     signature |-> "Transfer(address,address,uint256)",
     abi |-> EventAbi("Transfer", <<"address", "address", "uint256">>)]

TransferB == [TransferA EXCEPT !.contractAddress = "TokenB"]

Signatures == {TransferA, TransferB}

\* keccak256 of `name(type,...)`: one hash for each name and type list.
getEventTopic0(eventName, inputs) == <<"keccak256", eventName, inputs>>

topic0Of(signature) ==
    IF signature.abi.anonymous
    THEN <<"0x", signature.signature>>
    ELSE getEventTopic0(signature.abi.name, signature.abi.inputs)

getSignatureKey(signature) == <<signature.contractAddress, signature.eventName>>

\* The id of a row of event_signatures.
signatureId(signature) == <<signature.eventName, signature.contractAddress>>

\* Map.set and Map.delete.
MapSet(map, key, value) ==
    [k \in DOMAIN map \cup {key} |-> IF k = key THEN value ELSE map[k]]

MapDelete(map, key) == [k \in DOMAIN map \ {key} |-> map[k]]

\* The feed: a log as its contract emitted it, receipts by transaction
\* hash, and a flashblock whose transaction has a Transfer of each contract.
FeedLog(signature) == [address |-> signature.contractAddress, topics |-> <<topic0Of(signature)>>]

Flashblock1 ==
    [block_number |-> 1,
     receipts |-> <<[txHash |-> "tx1", logs |-> <<FeedLog(TransferA), FeedLog(TransferB)>>]>>]

Flashblocks == {Flashblock1}

\* The listener's own fields as one value, with the errors that a step
\* hands to onError.
Listener ==
    [ws |-> ws, socket |-> socket, replaced |-> replaced, isConnecting |-> isConnecting,
     reconnectAttempts |-> reconnectAttempts, reconnectDelay |-> reconnectDelay,
     timers |-> timers, errors |-> <<>>]

onError(l, message) == [l EXCEPT !.errors = Append(@, message)]

backoffLinear(delay, attempts) == delay * attempts

backoff(delay, attempts) == delay * 2 ^ (attempts - 1)

scheduleReconnect(l) ==
    IF l.reconnectAttempts >= maxReconnectAttempts
    THEN onError(l, "Max reconnection attempts reached")
    ELSE [l EXCEPT !.reconnectAttempts = @ + 1,
                   !.timers = Append(@, backoff(l.reconnectDelay, l.reconnectAttempts + 1))]

\* connect(); throws tells whether `new WebSocket` throws.  The socket that
\* this.ws referred to before, if it has not closed, lives on with the
\* listeners that were added to it.
connect(l, throws) ==
    IF l.isConnecting \/ (l.ws # "null" /\ l.socket = "OPEN")
    THEN l
    ELSE IF throws
         THEN scheduleReconnect(onError([l EXCEPT !.isConnecting = FALSE],
                                        "Failed to connect to Flashblocks"))
         ELSE [l EXCEPT !.isConnecting = TRUE, !.ws = "set", !.socket = "CONNECTING",
                        !.replaced = IF l.socket = "none" THEN @
                                     ELSE [@ EXCEPT ![l.socket] = @ + 1]]

disconnect(l) ==
    [l EXCEPT !.socket = IF l.ws # "null" THEN "CLOSING" ELSE @,
              !.ws = "null",
              !.reconnectAttempts = 0]

\* Mutant of handleOpen: the backoff is left as the failed attempts made it.
handleOpenKeepsBackoff(l) ==
    [l EXCEPT !.socket = "OPEN", !.isConnecting = FALSE]

handleOpen(l) ==
    [l EXCEPT !.socket = "OPEN", !.isConnecting = FALSE, !.reconnectAttempts = 0,
              !.reconnectDelay = BaseDelay]

handleClose(l, code) ==
    LET closed == [l EXCEPT !.socket = "none", !.isConnecting = FALSE, !.ws = "null"]
    IN  IF code # NormalClosure THEN scheduleReconnect(closed) ELSE closed

\* The WebSockets, besides the newest, that have not closed.
Replaced(l) == l.replaced["CONNECTING"] + l.replaced["OPEN"] + l.replaced["CLOSING"]

\* A step of the listener that leaves it as l.
Becomes(l, op, code) ==
    /\ Replaced(l) <= MaxReplaced
    /\ Len(l.timers) <= MaxTimers
    /\ ws' = l.ws
    /\ socket' = l.socket
    /\ replaced' = l.replaced
    /\ isConnecting' = l.isConnecting
    /\ reconnectAttempts' = l.reconnectAttempts
    /\ reconnectDelay' = l.reconnectDelay
    /\ timers' = l.timers
    /\ lcall' = [op |-> op, code |-> code, errors |-> l.errors, id |-> <<>>]

connectionVars == <<ws, socket, replaced, isConnecting, reconnectAttempts, reconnectDelay, timers>>
signatureVars == <<eventSignatures, monitoredSignatures, signatureRows>>
detectionVars == <<detectedEvents, processed, detections>>

\* FlashblocksListener.addEventSignature on the map.
addEventSignature(map, signature) == MapSet(map, topic0Of(signature), signature)

removeEventSignature(map, signature) == MapDelete(map, topic0Of(signature))

\* loadEventSignatures: the rows of event_signatures in their order.
RECURSIVE loadEventSignatures(_, _)
loadEventSignatures(maps, rows) ==
    IF rows = <<>> THEN maps
    ELSE loadEventSignatures(
            [monitored |-> MapSet(maps.monitored, getSignatureKey(Head(rows)), Head(rows)),
             listened |-> addEventSignature(maps.listened, Head(rows))],
            Tail(rows))

\* EventMonitor.start()
Start(throws) ==
    /\ started = "no"
    /\ started' = "yes"
    /\ LET maps == loadEventSignatures([monitored |-> monitoredSignatures,
                                        listened |-> eventSignatures], signatureRows)
       IN  /\ monitoredSignatures' = maps.monitored
           /\ eventSignatures' = maps.listened
    /\ Becomes(connect(Listener, throws), "start", 0)
    /\ UNCHANGED <<signatureRows, detectionVars, ledgerVars, syncVars, hookVars>>

\* EventMonitor.stop()
Stop ==
    /\ started = "yes"
    /\ started' = "stopped"
    /\ Becomes(disconnect(Listener), "stop", 0)
    /\ UNCHANGED <<signatureVars, detectionVars, ledgerVars, syncVars, hookVars>>

\* EventMonitor.start() called again after stop().
Restart(throws) ==
    /\ started = "stopped"
    /\ started' = "yes"
    /\ LET maps == loadEventSignatures([monitored |-> monitoredSignatures,
                                        listened |-> eventSignatures], signatureRows)
       IN  /\ monitoredSignatures' = maps.monitored
           /\ eventSignatures' = maps.listened
    /\ Becomes(connect(Listener, throws), "start", 0)
    /\ UNCHANGED <<signatureRows, detectionVars, ledgerVars, syncVars, hookVars>>

\* A timer of scheduleReconnect fires and calls connect().
TimerFires(throws) ==
    /\ timers # <<>>
    /\ \E i \in 1..Len(timers) :
          LET rest == [k \in 1..(Len(timers) - 1) |-> IF k < i THEN timers[k] ELSE timers[k + 1]]
          IN  Becomes(connect([Listener EXCEPT !.timers = rest], throws), "timer", timers[i])
    /\ UNCHANGED <<started, signatureVars, detectionVars, ledgerVars, syncVars, hookVars>>

\* The socket's open event.
SocketOpen ==
    /\ socket = "CONNECTING"
    /\ Becomes(handleOpen(Listener), "handleOpen", 0)
    /\ UNCHANGED <<started, signatureVars, detectionVars, ledgerVars, syncVars, hookVars>>

\* The socket's close event with its code.
SocketClose(code) ==
    /\ socket # "none"
    /\ Becomes(handleClose(Listener, code), "handleClose", code)
    /\ UNCHANGED <<started, signatureVars, detectionVars, ledgerVars, syncVars, hookVars>>

\* The open event of a socket that is not the newest: its handleOpen is
\* bound to the same listener.
ReplacedOpen ==
    /\ replaced["CONNECTING"] > 0
    /\ Becomes([handleOpen(Listener) EXCEPT
                   !.socket = socket,
                   !.replaced = [@ EXCEPT !["CONNECTING"] = @ - 1, !["OPEN"] = @ + 1]],
               "handleOpen", 0)
    /\ UNCHANGED <<started, signatureVars, detectionVars, ledgerVars, syncVars, hookVars>>

\* The close event of a socket that is not the newest.
ReplacedClose(readyState, code) ==
    /\ replaced[readyState] > 0
    /\ Becomes([handleClose(Listener, code) EXCEPT
                   !.socket = socket,
                   !.replaced = [@ EXCEPT ![readyState] = @ - 1]],
               "handleClose", code)
    /\ UNCHANGED <<started, signatureVars, detectionVars, ledgerVars, syncVars, hookVars>>

\* The error event of a socket.
SocketError ==
    /\ socket # "none" \/ Replaced(Listener) > 0
    /\ Becomes(onError(Listener, "WebSocket connection error"), "handleError", 0)
    /\ UNCHANGED <<started, signatureVars, detectionVars, ledgerVars, syncVars, hookVars>>

\* EventMonitor.addEventSignature
AddEventSignature(signature) ==
    /\ signatureRows' =
          IF \E i \in 1..Len(signatureRows) : signatureId(signatureRows[i]) = signatureId(signature)
          THEN signatureRows
          ELSE Append(signatureRows, signature)
    /\ monitoredSignatures' = MapSet(monitoredSignatures, getSignatureKey(signature), signature)
    /\ eventSignatures' = addEventSignature(eventSignatures, signature)
    /\ lcall' = [op |-> "addEventSignature", code |-> 0, errors |-> <<>>,
                 id |-> getSignatureKey(signature)]
    /\ UNCHANGED <<started, connectionVars, detectionVars, ledgerVars, syncVars, hookVars>>

\* EventMonitor.removeEventSignature
RemoveEventSignature(signature) ==
    /\ monitoredSignatures' = MapDelete(monitoredSignatures, getSignatureKey(signature))
    /\ eventSignatures' = removeEventSignature(eventSignatures, signature)
    /\ lcall' = [op |-> "removeEventSignature", code |-> 0, errors |-> <<>>,
                 id |-> getSignatureKey(signature)]
    /\ UNCHANGED <<started, connectionVars, signatureRows, detectionVars, ledgerVars, syncVars, hookVars>>

\* processLog: the DetectedEvent of a log, if its topic0 is monitored.
processLog(map, log, flashblock, txHash, logIndex) ==
    IF log.topics = <<>> THEN <<>>
    ELSE IF log.topics[1] \notin DOMAIN map THEN <<>>
    ELSE <<[signature |-> map[log.topics[1]], transactionHash |-> txHash,
            blockNumber |-> flashblock.block_number, logIndex |-> logIndex]>>

\* processTransactionReceipt from the log at index i on.
RECURSIVE processTransactionReceipt(_, _, _, _)
processTransactionReceipt(map, receipt, flashblock, i) ==
    IF i >= Len(receipt.logs) THEN <<>>
    ELSE processLog(map, receipt.logs[i + 1], flashblock, receipt.txHash, i)
         \o processTransactionReceipt(map, receipt, flashblock, i + 1)

\* processFlashblock from the receipt at position r on: the DetectedEvents
\* handed to onEventDetected, in order.
RECURSIVE processFlashblock(_, _, _)
processFlashblock(map, flashblock, r) ==
    IF r > Len(flashblock.receipts) THEN <<>>
    ELSE processTransactionReceipt(map, flashblock.receipts[r], flashblock, 0)
         \o processFlashblock(map, flashblock, r + 1)

\* The id of a row of detected_events.
detectedId(event) == <<event.transactionHash, event.logIndex>>

insertDetectedNoKey(rows, event) ==
    [ok |-> TRUE,
     rows |-> Append(rows, [id |-> detectedId(event),
                            eventSignatureId |-> signatureId(event.signature)])]

\* db.insert(detectedEvents): the id is the primary key.
insertDetected(rows, event) ==
    IF \E i \in 1..Len(rows) : rows[i].id = detectedId(event)
    THEN [ok |-> FALSE, rows |-> rows]
    ELSE insertDetectedNoKey(rows, event)

\* The socket's message event with a flashblock: every detected event
\* starts a handleEventDetected.
SocketMessage(flashblock) ==
    /\ socket = "OPEN" \/ replaced["OPEN"] > 0
    /\ LET found == processFlashblock(eventSignatures, flashblock, 1)
       IN  /\ Len(detections) + Len(found) <= MaxInFlight
           /\ detections' = detections \o [i \in 1..Len(found) |-> [event |-> found[i], pc |-> 1]]
    /\ lcall' = [op |-> "handleMessage", code |-> 0, errors |-> <<>>, id |-> <<>>]
    /\ UNCHANGED <<started, connectionVars, signatureVars, detectedEvents, processed,
                   ledgerVars, syncVars, hookVars>>

\* The handleEventDetected at the head of the queue runs to its next await.
HandleEventDetected ==
    /\ detections # <<>>
    /\ LET h == Head(detections)
           id == detectedId(h.event)
           stored == insertDetected(detectedEvents, h.event)
       IN  IF h.pc = 1
           THEN /\ detectedEvents' = stored.rows
                /\ detections' = IF stored.ok
                                 THEN Append(Tail(detections), [h EXCEPT !.pc = 2])
                                 ELSE Tail(detections)
                /\ lcall' = [op |-> "handleEventDetected", code |-> 0,
                             errors |-> IF stored.ok THEN <<>> ELSE <<"PRIMARY KEY">>,
                             id |-> id]
                /\ UNCHANGED processed
           ELSE /\ processed' = MapSet(processed, id,
                                       IF id \in DOMAIN processed THEN processed[id] + 1 ELSE 1)
                /\ detections' = Tail(detections)
                /\ lcall' = [op |-> "processEvent", code |-> 0, errors |-> <<>>, id |-> id]
                /\ UNCHANGED detectedEvents
    /\ UNCHANGED <<started, connectionVars, signatureVars, ledgerVars, syncVars, hookVars>>

ListenerNext ==
    \/ \E throws \in BOOLEAN : Start(throws)
    \/ Stop
    \/ \E throws \in BOOLEAN : TimerFires(throws)
    \/ SocketOpen
    \/ \E code \in CloseCodes : SocketClose(code)
    \/ SocketError
    \/ \E signature \in Signatures : AddEventSignature(signature)
    \/ \E signature \in Signatures : RemoveEventSignature(signature)
    \/ \E flashblock \in Flashblocks : SocketMessage(flashblock)
    \/ HandleEventDetected

\* The monitor is started once, and stopped at any time after.
ListenerSpec == Init /\ [][ListenerNext]_vars

\* The connection alone, with a monitor that is started, stopped and
\* started again any number of times: a start() after a stop() can find
\* the socket of the previous run not closed yet.
ConnectionNext ==
    \/ \E throws \in BOOLEAN : Start(throws)
    \/ Stop
    \/ \E throws \in BOOLEAN : Restart(throws)
    \/ \E throws \in BOOLEAN : TimerFires(throws)
    \/ SocketOpen
    \/ \E code \in CloseCodes : SocketClose(code)
    \/ ReplacedOpen
    \/ \E readyState \in DOMAIN replaced, code \in CloseCodes : ReplacedClose(readyState, code)
    \/ SocketError

ConnectionSpec == Init /\ [][ConnectionNext]_vars

(***************************************************************************)
(* Properties of the listener.                                             *)
(***************************************************************************)

EmittedFor(map, signature) == processLog(map, FeedLog(signature), Flashblock1, "tx1", 0)

Detects(map, signature) == EmittedFor(map, signature) # <<>>

Listens(map, signature) ==
    /\ Detects(map, signature)
    /\ EmittedFor(map, signature)[1].signature = signature

\* C19: removing a signature leaves every other registered signature
\* detected as before, and adding a signature leaves every other
\* registered signature the one its logs are detected with, also when the
\* two have the same topic0.
C19_FiltersIndependent ==
    [][/\ lcall'.op = "removeEventSignature" =>
             \A k \in DOMAIN monitoredSignatures' :
                Detects(eventSignatures, monitoredSignatures'[k]) =>
                   Detects(eventSignatures', monitoredSignatures'[k])
       /\ lcall'.op = "addEventSignature" =>
             \A k \in DOMAIN monitoredSignatures \ {lcall'.id} :
                Listens(eventSignatures, monitoredSignatures[k]) =>
                   Listens(eventSignatures', monitoredSignatures[k])]_vars

MaxVariables == 2

Chars(s) == [kind |-> "chars", chars |-> s, num |-> 0]

Decimal(n) == [kind |-> "decimal", chars |-> "", num |-> n]

JsString(text) == [t |-> "string", text |-> text]

JsBigInt(n) == [t |-> "bigint", text |-> Decimal(n)]

JsNumber(n) == [t |-> "number", text |-> Decimal(n)]

JsUndefined == [t |-> "undefined", text |-> Chars("undefined")]

JsObject == [t |-> "object", text |-> Chars("[object Object]")]

JsFunction == [t |-> "function", text |-> Chars("function () { [native code] }")]

\* value.toString() of a bigint or a number.
ToStringOf(value) == JsString(value.text)

\* The property names that every object inherits.
ObjectPrototype == {"toString"}

\* A DetectedEvent of FlashblocksListener.processLog with these args.
DetectedEventOf(transactionHash, logIndex, args) ==
    LET own == {<<"signature">>, <<"signature", "contractAddress">>, <<"signature", "eventName">>,
                <<"transactionHash">>, <<"blockNumber">>, <<"logIndex">>, <<"args">>,
                <<"timestamp">>}
               \cup {<<"args", name>> : name \in DOMAIN args}
    IN  [path \in own |->
           CASE path = <<"signature">> -> JsObject
             [] path = <<"signature", "contractAddress">> -> JsString(Chars("0xPool"))
             [] path = <<"signature", "eventName">> -> JsString(Chars("Swap"))
             [] path = <<"transactionHash">> -> JsString(Chars(transactionHash))
             [] path = <<"blockNumber">> -> JsBigInt(7)
             [] path = <<"logIndex">> -> JsNumber(logIndex)
             [] path = <<"args">> -> JsObject
             [] path = <<"timestamp">> -> JsNumber(9)
             [] OTHER -> args[path[2]]]

\* `part in current`, also true of an inherited property.
HasProperty(event, prefix, part) ==
    Append(prefix, part) \in DOMAIN event \/ part \in ObjectPrototype

GetProperty(event, prefix, part) ==
    IF Append(prefix, part) \in DOMAIN event THEN event[Append(prefix, part)] ELSE JsFunction

\* The loop of resolveEventVariable: current is the value at prefix.
RECURSIVE walkPath(_, _, _, _)
walkPath(event, prefix, current, parts) ==
    IF parts = <<>> THEN current
    ELSE IF current.t = "object" /\ HasProperty(event, prefix, Head(parts))
         THEN walkPath(event, Append(prefix, Head(parts)),
                       GetProperty(event, prefix, Head(parts)), Tail(parts))
         ELSE JsUndefined

\* A path is the list of the parts between its dots; <<>> stands for a
\* variable that has no path, whose split throws.
resolveEventVariable(event, path) ==
    IF path = <<>> THEN [throws |-> TRUE, value |-> JsUndefined]
    ELSE LET current == walkPath(event, <<>>, JsObject, path)
         IN  [throws |-> FALSE,
              value |-> IF current.t = "bigint" THEN ToStringOf(current) ELSE current]

resolveSystemVariable(event, path, userWalletAddress) ==
    [throws |-> FALSE,
     value |->
        CASE path = <<"block", "number">> -> ToStringOf(event[<<"blockNumber">>])
          [] path = <<"block", "timestamp">> -> ToStringOf(event[<<"timestamp">>])
          [] path = <<"transaction", "hash">> -> event[<<"transactionHash">>]
          [] path = <<"event", "logIndex">> -> ToStringOf(event[<<"logIndex">>])
          [] path = <<"event", "contractAddress">> -> event[<<"signature", "contractAddress">>]
          [] path = <<"user", "walletAddress">> -> JsString(Chars(userWalletAddress))
          [] OTHER -> JsUndefined]

resolveUserVariableAnyPath(path, userWalletAddress) ==
    [throws |-> FALSE, value |-> JsString(Chars(userWalletAddress))]

resolveUserVariable(path, userWalletAddress) ==
    [throws |-> FALSE,
     value |-> IF path = <<"walletAddress">> THEN JsString(Chars(userWalletAddress))
               ELSE JsUndefined]

resolveSingleVariable(event, variable, userWalletAddress) ==
    CASE variable.type = "event" -> resolveEventVariable(event, variable.path)
      [] variable.type = "system" -> resolveSystemVariable(event, variable.path, userWalletAddress)
      [] variable.type = "user" -> resolveUserVariable(variable.path, userWalletAddress)
      [] OTHER -> [throws |-> FALSE, value |-> JsUndefined]

\* Whether resolveVariables writes resolvedValues[variable.name].
Resolves(event, variable, userWalletAddress) ==
    LET r == resolveSingleVariable(event, variable, userWalletAddress)
    IN  ~r.throws /\ r.value.t # "undefined"

\* resolveVariables: the loop from the variable at index i on.
RECURSIVE resolveFrom(_, _, _, _, _)
resolveFrom(event, variables, userWalletAddress, i, resolvedValues) ==
    IF i > Len(variables) THEN resolvedValues
    ELSE LET variable == variables[i]
             value == resolveSingleVariable(event, variable, userWalletAddress).value
         IN  resolveFrom(event, variables, userWalletAddress, i + 1,
                         IF Resolves(event, variable, userWalletAddress)
                         THEN MapSet(resolvedValues, variable.name, value)
                         ELSE resolvedValues)

resolveVariables(event, variables, userWalletAddress) ==
    resolveFrom(event, variables, userWalletAddress, 1, <<>>)

\* The inputs: an event whose args hold a string, a bigint and a property
\* without a value; variable references of every type with paths that
\* resolve and paths that do not.
SwapArgs ==
    [token |-> JsString(Chars("0xToken")), amount |-> JsBigInt(5), memo |-> JsUndefined]

SwapEvent == DetectedEventOf("tx1", 0, SwapArgs)

UserWalletAddress == "0xWallet"

VariableNames == {"a", "b"}

EventPaths ==
    {<<"args", "token">>, <<"args", "amount">>, <<"args", "memo">>, <<"args", "missing">>,
     <<"args", "token", "length">>, <<"blockNumber">>, <<"toString">>, <<>>}

SystemPaths ==
    {<<"block", "number">>, <<"block", "timestamp">>, <<"transaction", "hash">>,
     <<"event", "logIndex">>, <<"event", "contractAddress">>, <<"user", "walletAddress">>}

VariableReferences ==
    {[name |-> n, type |-> "event", path |-> p] : n \in VariableNames, p \in EventPaths}
    \cup {[name |-> n, type |-> "system", path |-> p] :
             n \in VariableNames, p \in SystemPaths \cup {<<"block", "hash">>}}
    \cup {[name |-> n, type |-> "user", path |-> p] :
             n \in VariableNames, p \in {<<"walletAddress">>, <<"email">>}}
    \cup {[name |-> n, type |-> "contract", path |-> <<"args", "token">>] : n \in VariableNames}

VariableLists == UNION {[1..k -> VariableReferences] : k \in 0..MaxVariables}

TemplateIdle == UNCHANGED <<ledgerVars, syncVars, listenerVars, execVars, auctionExecVars>>

\* A call of VariableResolver.resolveVariables.
ResolveVariables(variables) ==
    /\ tcall.op = "none"
    /\ tcall' = [op |-> "resolveVariables", variables |-> variables,
                 result |-> resolveVariables(SwapEvent, variables, UserWalletAddress)]
    /\ TemplateIdle

(***************************************************************************)
(* VariableResolver.validateVariablesForEvent                              *)
(***************************************************************************)

\* The names of the inputs of an event ABI; none when there is no ABI.
SwapInputs == {"token", "amount", "memo"}

AbiInputs == {SwapInputs, {}}

\* The event properties that an event path may start with besides args.
EventProperties == {"blockNumber", "transactionHash", "logIndex", "timestamp"}

pathErrorArgsAny(variable, inputs) ==
    IF variable.path[1] = "args" THEN <<>>
    ELSE IF variable.path[1] \notin EventProperties
         THEN <<[variable |-> variable.name, error |-> "uses invalid event path",
                 at |-> variable.path]>>
         ELSE <<>>

\* The errors.push of one event-typed variable that has a path.
pathError(variable, inputs) ==
    IF variable.path[1] = "args"
    THEN IF Len(variable.path) > 1 /\ variable.path[2] \notin inputs
         THEN <<[variable |-> variable.name, error |-> "references non-existent event argument",
                 at |-> <<variable.path[2]>>]>>
         ELSE <<>>
    ELSE IF variable.path[1] \notin EventProperties
         THEN <<[variable |-> variable.name, error |-> "uses invalid event path",
                 at |-> variable.path]>>
         ELSE <<>>

\* The loop of validateVariablesForEvent from the variable at index i on;
\* the split of a missing path throws out of the function.
RECURSIVE validateFrom(_, _, _, _)
validateFrom(variables, inputs, i, errors) ==
    IF i > Len(variables)
    THEN [throws |-> FALSE, isValid |-> errors = <<>>, errors |-> errors]
    ELSE IF variables[i].type # "event"
         THEN validateFrom(variables, inputs, i + 1, errors)
         ELSE IF variables[i].path = <<>>
              THEN [throws |-> TRUE, isValid |-> FALSE, errors |-> <<>>]
              ELSE validateFrom(variables, inputs, i + 1,
                                errors \o pathError(variables[i], inputs))

validateVariablesForEvent(variables, inputs) == validateFrom(variables, inputs, 1, <<>>)

\* A call of VariableResolver.validateVariablesForEvent.
ValidateVariablesForEvent(variables, inputs) ==
    /\ tcall.op = "none"
    /\ tcall' = [op |-> "validateVariablesForEvent", variables |-> variables, inputs |-> inputs,
                 result |-> validateVariablesForEvent(variables, inputs)]
    /\ TemplateIdle

(***************************************************************************)
(* MulticallProcessor.  A string of a template is the list of its parts,   *)
(* each a ${name} placeholder or literal text.                             *)
(***************************************************************************)

\* The most calls in a template.
MaxCalls == 2

Lit(text) == [var |-> "", text |-> text]

Placeholder(name) == [var |-> name, text |-> Chars("${" \o name \o "}")]

\* `variableName in variables`, also true of an inherited property.
HasName(variables, name) == name \in DOMAIN variables \/ name \in ObjectPrototype

\* variables[variableName]
ValueOf(variables, name) == IF name \in DOMAIN variables THEN variables[name] ELSE JsFunction

\* template.replace(/\$\{([^}]+)\}/g, ...)
substituteVariables(template, variables) ==
    [k \in 1..Len(template) |->
        IF template[k].var # "" /\ HasName(variables, template[k].var)
        THEN Lit(ValueOf(variables, template[k].var).text)
        ELSE template[k]]

\* BigInt(string) of a string of at most one part: the number of a decimal
\* text, 0 for the empty string, a SyntaxError otherwise.
ParseBigInt(string) ==
    IF string = <<>> THEN [throws |-> FALSE, num |-> 0]
    ELSE IF Len(string) = 1 /\ string[1].var = "" /\ string[1].text.kind = "decimal"
         THEN [throws |-> FALSE, num |-> string[1].text.num]
         ELSE [throws |-> TRUE, num |-> 0]

processCall(originalCall, resolvedVariables) ==
    [target |-> substituteVariables(originalCall.target, resolvedVariables),
     value |-> substituteVariables(originalCall.value, resolvedVariables),
     calldata |-> substituteVariables(originalCall.calldata, resolvedVariables),
     originalCall |-> originalCall]

\* The names of the required variables that are not `in` resolvedVariables.
RECURSIVE findMissingVariables(_, _)
findMissingVariables(requiredVariables, resolvedVariables) ==
    IF requiredVariables = <<>> THEN <<>>
    ELSE (IF ~HasName(resolvedVariables, Head(requiredVariables).name)
          THEN <<Head(requiredVariables).name>> ELSE <<>>)
         \o findMissingVariables(Tail(requiredVariables), resolvedVariables)

processCallsReversed(calls, resolvedVariables, i, done) ==
    [throws |-> FALSE,
     calls |-> [k \in 1..Len(calls) |-> processCall(calls[Len(calls) + 1 - k], resolvedVariables)],
     totalValue |-> 0]

\* The loop of processTemplate over template.calls from index i on.
RECURSIVE processCalls(_, _, _, _)
processCalls(calls, resolvedVariables, i, done) ==
    IF i > Len(calls) THEN done
    ELSE LET processedCall == processCall(calls[i], resolvedVariables)
             value == ParseBigInt(processedCall.value)
         IN  IF value.throws THEN [done EXCEPT !.throws = TRUE]
             ELSE processCalls(calls, resolvedVariables, i + 1,
                               [done EXCEPT !.calls = Append(@, processedCall),
                                            !.totalValue = @ + value.num])

NoMulticall ==
    [null |-> TRUE, id |-> <<>>, templateId |-> "", eventId |-> <<>>, calls |-> <<>>,
     totalValue |-> Decimal(0), estimatedGas |-> Decimal(0), resolvedVariables |-> <<>>]

\* processTemplate at the time ms of Date.now().
processTemplate(template, event, userWalletAddress, ms) ==
    LET resolvedVariables == resolveVariables(event, template.requiredVariables, userWalletAddress)
        processedCalls == processCalls(template.calls, resolvedVariables, 1,
                                  [throws |-> FALSE, calls |-> <<>>, totalValue |-> 0])
    IN  IF findMissingVariables(template.requiredVariables, resolvedVariables) # <<>>
        THEN NoMulticall
        ELSE IF processedCalls.throws THEN NoMulticall
        ELSE [null |-> FALSE,
              id |-> <<event[<<"transactionHash">>].text.chars, template.id, ms>>,
              templateId |-> template.id,
              eventId |-> <<event[<<"transactionHash">>].text.chars, event[<<"logIndex">>].text.num>>,
              calls |-> processedCalls.calls,
              totalValue |-> Decimal(processedCalls.totalValue),
              estimatedGas |-> Decimal(template.estimatedGas),
              resolvedVariables |-> resolvedVariables]

\* MulticallExecutor.encodeMulticallData: the aggregate3 call of the calls.
encodeMulticallData(calls) ==
    [functionName |-> "aggregate3",
     args |-> [k \in 1..Len(calls) |->
                  [target |-> calls[k].target, allowFailure |-> FALSE,
                   callData |-> calls[k].calldata]]]

\* The inputs: required variables that resolve and that do not, and calls
\* with placeholders of required and of other names in each field.
TemplateVariables ==
    {[name |-> "a", type |-> "event", path |-> <<"args", "token">>],
     [name |-> "a", type |-> "event", path |-> <<"args", "missing">>],
     [name |-> "b", type |-> "event", path |-> <<"args", "amount">>],
     [name |-> "b", type |-> "system", path |-> <<"block", "hash">>],
     [name |-> "toString", type |-> "event", path |-> <<"args", "missing">>]}

RequiredLists == UNION {[1..k -> TemplateVariables] : k \in 0..MaxVariables}

Targets == {<<Lit(Chars("0xRouter"))>>, <<Placeholder("a")>>, <<Placeholder("c")>>}

Values == {<<Lit(Decimal(3))>>, <<Placeholder("b")>>, <<Placeholder("c")>>}

Calldatas ==
    {<<Lit(Chars("0xa9059cbb")), Placeholder("a"), Placeholder("b")>>,
     <<Lit(Chars("0x414bf389")), Placeholder("c")>>}

TransactionCalls == [target : Targets, value : Values, calldata : Calldatas]

CallLists == UNION {[1..k -> TransactionCalls] : k \in 1..MaxCalls}

TransactionTemplate(id, calls, requiredVariables) ==
    [id |-> id, calls |-> calls, requiredVariables |-> requiredVariables, estimatedGas |-> 2]

\* A call of MulticallProcessor.processTemplate, and of encodeMulticallData
\* on its calls as simulateMulticall and executeMulticall do.
ProcessTemplate(calls, requiredVariables) ==
    /\ tcall.op = "none"
    /\ LET template == TransactionTemplate("template1", calls, requiredVariables)
           result == processTemplate(template, SwapEvent, UserWalletAddress, 0)
       IN  tcall' = [op |-> "processTemplate", template |-> template, result |-> result,
                     encoded |-> encodeMulticallData(result.calls)]
    /\ TemplateIdle

(***************************************************************************)
(* The batch of the auction executor (HookExecutor.executeHook, the        *)
(* auction-based class).                                                   *)
(***************************************************************************)
\* createWithdrawalSignature: the executor key signs, with the signed
\* message prefix, the prefixed hash of the call data of
\* encode(filterHash, vault, nonce, auction contract).
createWithdrawalSignature(filterHash, vault, nonce) ==
    [signer |-> Exec1, selector |-> "encode", filterHash |-> filterHash, vault |-> vault,
     nonce |-> nonce, ledger |-> Ledger, prefixes |-> 2]

\* HookExecutor.encodeMulticallData of the auction executor: the aggregate3
\* call of the calls, each with the allowFailure it was given.
auctionEncodeMulticallData(calls) ==
    [functionName |-> "aggregate3",
     args |-> [k \in 1..Len(calls) |->
                  [target |-> calls[k].target, allowFailure |-> calls[k].allowFailure,
                   callData |-> calls[k].callData]]]

\* The trigger call data of the consumer and the withdrawWinnings call data
\* that executeHook encodes, and the batch of the two.
triggerCalldata(eventFilter, event) ==
    [functionName |-> "trigger", args |-> <<eventFilter, event>>]

withdrawalCalldata(filterHash, vault, executorNonce, signature) ==
    [functionName |-> "withdrawWinnings",
     args |-> <<filterHash, vault, executorNonce, signature>>]

multicallData(eventFilter, event, winner, executorNonce) ==
    LET filterHash == getFilterHash(eventFilter)
        signature == createWithdrawalSignature(filterHash, Vault, executorNonce)
    IN  auctionEncodeMulticallData(
           <<[target |-> winner.hookConsumerAddress, allowFailure |-> TRUE,
              callData |-> triggerCalldata(eventFilter, event)],
             [target |-> Ledger, allowFailure |-> FALSE,
              callData |-> withdrawalCalldata(filterHash, Vault, executorNonce,
                                              signature)]>>)

\* The winners getAuctionWinner returns (the consumer is taken to be the
\* bidder), and the nonces the executor reads.
Winners ==
    {[bidder |-> Alice, hookConsumerAddress |-> Alice],
     [bidder |-> Bob, hookConsumerAddress |-> Bob]}

ExecutorNonces == 0..1

\* The encoding step of executeHook of the auction executor.
ExecuteHookEncode(winner, executorNonce) ==
    /\ tcall.op = "none"
    /\ tcall' = [op |-> "executeHook", winner |-> winner,
                 encoded |-> multicallData(FilterA, [transactionHash |-> "tx1", logIndex |-> 0],
                                            winner, executorNonce)]
    /\ TemplateIdle

TemplateNext ==
    \/ \E variables \in VariableLists : ResolveVariables(variables)
    \/ \E variables \in VariableLists, inputs \in AbiInputs :
          ValidateVariablesForEvent(variables, inputs)
    \/ \E calls \in CallLists, requiredVariables \in RequiredLists :
          ProcessTemplate(calls, requiredVariables)
    \/ \E winner \in Winners, executorNonce \in ExecutorNonces :
          ExecuteHookEncode(winner, executorNonce)

TemplateSpec == Init /\ [][TemplateNext]_vars

(***************************************************************************)
(* Properties of the template pipeline.                                    *)
(***************************************************************************)

\* The misses that the resolver is to report: a system path outside the
\* six, a user path other than walletAddress, an event path that the event
\* does not hold, a type other than event, system, user.
Unresolvable(variable) ==
    \/ variable.type = "system" /\ variable.path \notin SystemPaths
    \/ variable.type = "user" /\ variable.path # <<"walletAddress">>
    \/ variable.type = "event" /\ variable.path \notin DOMAIN SwapEvent
    \/ variable.type \notin {"event", "system", "user"}

\* The event holds the path neither itself nor through a property that
\* its objects inherit.
NotFound(path) ==
    /\ path \notin DOMAIN SwapEvent
    /\ \/ path = <<>>
       \/ path[Len(path)] \notin ObjectPrototype
       \/ /\ Len(path) > 1
          /\ \/ SubSeq(path, 1, Len(path) - 1) \notin DOMAIN SwapEvent
             \/ SwapEvent[SubSeq(path, 1, Len(path) - 1)].t # "object"

UnresolvableAsFound(variable) ==
    \/ variable.type = "system" /\ variable.path \notin SystemPaths
    \/ variable.type = "user" /\ variable.path # <<"walletAddress">>
    \/ variable.type = "event" /\ NotFound(variable.path)
    \/ variable.type \notin {"event", "system", "user"}

ValueAlone(variable) == resolveSingleVariable(SwapEvent, variable, UserWalletAddress).value

NamesNoArgument(variable, inputs) ==
    /\ variable.type = "event"
    /\ ~(/\ Len(variable.path) = 2
         /\ variable.path[1] = "args"
         /\ variable.path[2] \in inputs)

\* An event-typed variable that validation turns down: args.<name> with
\* <name> no input of the ABI, or a first part that is neither args nor an
\* event property.
Offends(variable, inputs) ==
    /\ variable.type = "event"
    /\ variable.path # <<>>
    /\ \/ /\ variable.path[1] = "args"
          /\ Len(variable.path) > 1
          /\ variable.path[2] \notin inputs
       \/ variable.path[1] \notin EventProperties \cup {"args"}

\* The variables of the entries of an errors list, in order.
ErrorVariables(errors) == [k \in 1..Len(errors) |-> errors[k].variable]

\* The names of the variables at the indices kept, in order, from index i on.
RECURSIVE NamesAt(_, _, _)
NamesAt(variables, keep, i) ==
    IF i > Len(variables) THEN <<>>
    ELSE (IF i \in keep THEN <<variables[i].name>> ELSE <<>>) \o NamesAt(variables, keep, i + 1)

AllRequiredResolve ==
    \A i \in 1..Len(tcall.template.requiredVariables) :
       Resolves(SwapEvent, tcall.template.requiredVariables[i], UserWalletAddress)

\* The placeholders of a string are left as they are where the map has no
\* entry of their name.
PlaceholdersLeft(template, output, variables) ==
    /\ Len(output) = Len(template)
    /\ \A k \in 1..Len(template) :
          (template[k].var # "" /\ template[k].var \notin DOMAIN variables) =>
             output[k] = template[k]

\* C28: when every required variable resolves, processTemplate returns a
\* multicall with as many calls as the template, and a placeholder without
\* an entry in the resolved map stands unchanged in target, value and
\* calldata.
C28_PlaceholdersLeftInAllFields ==
    (tcall.op = "processTemplate" /\ AllRequiredResolve) =>
       /\ ~tcall.result.null
       /\ Len(tcall.result.calls) = Len(tcall.template.calls)
       /\ \A i \in 1..Len(tcall.template.calls) :
             LET original == tcall.template.calls[i]
                 processedCall == tcall.result.calls[i]
                 variables == tcall.result.resolvedVariables
             IN  /\ PlaceholdersLeft(original.target, processedCall.target, variables)
                 /\ PlaceholdersLeft(original.value, processedCall.value, variables)
                 /\ PlaceholdersLeft(original.calldata, processedCall.calldata, variables)

\* C29: a multicall that processTemplate returns has the calls of the
\* template, one for one and in order, each the substitution of the call
\* at its index, and the aggregate3 call that the executor encodes has the
\* targets and calldata of those calls in the same order.
C29_CallOrderPreserved ==
    (tcall.op = "processTemplate" /\ ~tcall.result.null) =>
       /\ Len(tcall.result.calls) = Len(tcall.template.calls)
       /\ \A i \in 1..Len(tcall.template.calls) :
             /\ tcall.result.calls[i].originalCall = tcall.template.calls[i]
             /\ tcall.result.calls[i] =
                   processCall(tcall.template.calls[i], tcall.result.resolvedVariables)
       /\ Len(tcall.encoded.args) = Len(tcall.template.calls)
       /\ \A i \in 1..Len(tcall.template.calls) :
             /\ tcall.encoded.args[i].target = tcall.result.calls[i].target
             /\ tcall.encoded.args[i].callData = tcall.result.calls[i].calldata

\* Two different calls were processed and encoded.
C29_Witness ==
    /\ tcall.op = "processTemplate"
    /\ ~tcall.result.null
    /\ Len(tcall.template.calls) = 2
    /\ tcall.template.calls[1].target # tcall.template.calls[2].target
    /\ tcall.template.calls[1].calldata # tcall.template.calls[2].calldata
    /\ tcall.result.calls[1].target # tcall.result.calls[2].target
    /\ tcall.encoded.args[2].target = <<Lit(Chars("0xToken"))>>

\* C22: in every batch an executor encodes, a withdrawWinnings call must
\* succeed (allowFailure false), a call supplied by a user (the trigger call
\* of a consumer, each call of a template) may fail (allowFailure true),
\* and a trigger call stands before the withdrawWinnings call.
C22_PayoutMustSucceedUserCallsMayFail ==
    /\ tcall.op = "executeHook" =>
          LET args == tcall.encoded.args
          IN  /\ \A k \in 1..Len(args) :
                    /\ args[k].callData.functionName = "withdrawWinnings" =>
                          ~args[k].allowFailure
                    /\ args[k].callData.functionName = "trigger" => args[k].allowFailure
              /\ \A j, k \in 1..Len(args) :
                    (/\ args[j].callData.functionName = "trigger"
                     /\ args[k].callData.functionName = "withdrawWinnings") => j < k
    /\ (tcall.op = "processTemplate" /\ ~tcall.result.null) =>
          \A k \in 1..Len(tcall.encoded.args) : tcall.encoded.args[k].allowFailure

(***************************************************************************)
(* The template executor: HookExecutor.processEvent of the template-based  *)
(* class and MulticallExecutor.  The database driver is synchronous, so a  *)
(* run goes from the detection of its event to its first request to the    *)
(* chain without another task in between; from there on it continues when  *)
(* the answer to its pending request arrives, and the runs of different    *)
(* events interleave at these points.                                      *)
(***************************************************************************)
MaxDateNow == 1

\* getGasPrice() and the answers of getBalance(): the multicall of the
\* hook needs totalValue 3 and 2 gas at this price.
GasPrice == 1

Balances == {4, 5}

\* The transaction hash written to the row of a failed execution.
ZeroHash == <<"0x00">>

\* The hash of the transaction of the wallet with a nonce.
TxHash(nonce) == <<"0xtx", nonce>>

ExecIdle == UNCHANGED <<ledgerVars, syncVars, listenerVars, templateVars, auctionExecVars>>

\* The wallet of the user of the hook (table user_wallets).
AutomationWallet == [automationAddress |-> UserWalletAddress, isActive |-> TRUE]

\* The templates a hook is stored with: one call, and required variables
\* that resolve, that do not, and two of one name of which one resolves.
HookCall ==
    [target |-> <<Lit(Chars("0xRouter"))>>, value |-> <<Lit(Decimal(3))>>,
     calldata |-> <<Lit(Chars("0xa9059cbb")), Placeholder("a")>>]

HookRequired ==
    {<<[name |-> "a", type |-> "event", path |-> <<"args", "token">>]>>,
     <<[name |-> "a", type |-> "event", path |-> <<"args", "missing">>]>>,
     <<[name |-> "a", type |-> "event", path |-> <<"args", "token">>],
       [name |-> "a", type |-> "event", path |-> <<"args", "missing">>]>>}

HookTemplates ==
    {TransactionTemplate("template1", <<HookCall>>, requiredVariables) :
        requiredVariables \in HookRequired}

HookIds == {"hook1"}

\* The detected event of a log of tx1.
EventAt(logIndex) == DetectedEventOf("tx1", logIndex, SwapArgs)

\* event.signature.eventName + '_' + event.signature.contractAddress
eventSignatureKey(event) ==
    <<event[<<"signature", "eventName">>].text.chars,
      event[<<"signature", "contractAddress">>].text.chars>>

\* A hook and its template are stored.
StoreHook(template) ==
    /\ eventHooks = <<>>
    /\ eventHooks' =
          MapSet(eventHooks, "hook1",
                 [id |-> "hook1", eventSignature |-> <<"Swap", "0xPool">>,
                  isActive |-> TRUE, transactionTemplateId |-> template.id,
                  automationWallet |-> UserWalletAddress])
    /\ transactionTemplates' = MapSet(transactionTemplates, template.id, template)
    /\ UNCHANGED <<hookExecutions, runs, simulated, rawTxs, chainTxs, transactionCount,
                   dateNow>>
    /\ ExecIdle

\* Mutant of findMatchingHooks: isActive is not in the query.
findMatchingHooksOfAnyState(event) ==
    {id \in DOMAIN eventHooks : eventHooks[id].eventSignature = eventSignatureKey(event)}

\* findMatchingHooks: the ids of the active hooks of the event's signature.
findMatchingHooks(event) ==
    {id \in DOMAIN eventHooks :
        /\ eventHooks[id].eventSignature = eventSignatureKey(event)
        /\ eventHooks[id].isActive}

\* disableHook and enableHook: update event_hooks set isActive where id.
setActive(hookId, isActive) ==
    [id \in DOMAIN eventHooks |->
        IF id = hookId THEN [eventHooks[id] EXCEPT !.isActive = isActive]
        ELSE eventHooks[id]]

DisableHook(hookId) ==
    /\ eventHooks' = setActive(hookId, FALSE)
    /\ UNCHANGED <<transactionTemplates, hookExecutions, runs, simulated, rawTxs, chainTxs,
                   transactionCount, dateNow>>
    /\ ExecIdle

EnableHook(hookId) ==
    /\ eventHooks' = setActive(hookId, TRUE)
    /\ UNCHANGED <<transactionTemplates, hookExecutions, runs, simulated, rawTxs, chainTxs,
                   transactionCount, dateNow>>
    /\ ExecIdle

\* The run of an event ends.
Done(run) == [run EXCEPT !.pc = "done"]

\* processEvent of an event of the signature of the stored hook (the
\* listener detects the signatures that are monitored), up to the first
\* request to the chain: findMatchingHooks,
\* and for the hook found executeHook with its template and wallet,
\* processTemplate at the time ms of Date.now(), and the estimateGas
\* request of simulateMulticall.
ProcessEvent(logIndex, ms) ==
    LET event == EventAt(logIndex)
        hooks == findMatchingHooks(event)
        hook == eventHooks[CHOOSE id \in hooks : TRUE]
        template == transactionTemplates[hook.transactionTemplateId]
        processedMulticall ==
           processTemplate(template, event, AutomationWallet.automationAddress, ms)
    IN  /\ runs[logIndex].pc = "idle"
        /\ eventHooks # <<>>
        /\ IF hooks = {}
           THEN /\ ms = dateNow
                /\ runs' = [runs EXCEPT ![logIndex] = Done(@)]
                /\ UNCHANGED <<simulated, dateNow>>
           ELSE /\ ms \in {dateNow, dateNow + 1}
                /\ ms <= MaxDateNow
                /\ dateNow' = ms
                /\ IF processedMulticall.null
                   THEN /\ runs' = [runs EXCEPT ![logIndex] = Done(@)]
                        /\ UNCHANGED simulated
                   ELSE /\ runs' = [runs EXCEPT ![logIndex] =
                                       [@ EXCEPT !.pc = "simulate",
                                                 !.multicall = processedMulticall]]
                        /\ simulated' = simulated \cup {processedMulticall.eventId}
        /\ UNCHANGED <<eventHooks, transactionTemplates, hookExecutions, rawTxs, chainTxs,
                       transactionCount>>
        /\ ExecIdle

\* simulateMulticall returns: executeHook returns when the estimate
\* failed, and calls executeMulticall otherwise, which asks for the nonce
\* and the gas price.
SimulateReturns(logIndex, success) ==
    /\ runs[logIndex].pc = "simulate"
    /\ runs' = [runs EXCEPT ![logIndex] =
                   IF success THEN [@ EXCEPT !.pc = "nonce"] ELSE Done(@)]
    /\ UNCHANGED <<eventHooks, transactionTemplates, hookExecutions, simulated, rawTxs,
                   chainTxs, transactionCount, dateNow>>
    /\ ExecIdle

\* executeMulticall has the nonce and the gas price, and asks for the balance.
NonceReturns(logIndex) ==
    /\ runs[logIndex].pc = "nonce"
    /\ runs' = [runs EXCEPT ![logIndex] =
                   [@ EXCEPT !.pc = "balance", !.nonce = transactionCount]]
    /\ UNCHANGED <<eventHooks, transactionTemplates, hookExecutions, simulated, rawTxs,
                   chainTxs, transactionCount, dateNow>>
    /\ ExecIdle

\* The rows of an execution: `exec_${processedMulticall.id}`.
executionId(processedMulticall) == <<"exec", processedMulticall.id>>

pendingExecution(processedMulticall, hookId, txHash) ==
    [id |-> executionId(processedMulticall), hookId |-> hookId,
     triggerEventId |-> processedMulticall.eventId, executionTxHash |-> txHash,
     status |-> "pending", gasUsed |-> 0,
     feeCharged |-> processedMulticall.estimatedGas.num * GasPrice, errorMessage |-> ""]

failedExecution(processedMulticall, hookId, message) ==
    [id |-> executionId(processedMulticall), hookId |-> hookId,
     triggerEventId |-> processedMulticall.eventId, executionTxHash |-> ZeroHash,
     status |-> "failed", gasUsed |-> 0, feeCharged |-> 0, errorMessage |-> message]

\* db.insert(hookExecutions).values(row): the primary key is the id.
insert(table, row) ==
    IF row.id \in DOMAIN table
    THEN [throws |-> TRUE, table |-> table]
    ELSE [throws |-> FALSE, table |-> MapSet(table, row.id, row)]

\* The catch of executeMulticall for the error of a message: the failed
\* row is inserted outside of any try, and the run ends.
catchError(logIndex, message) ==
    LET run == runs[logIndex]
        inserted == insert(hookExecutions, failedExecution(run.multicall, "hook1", message))
    IN  /\ hookExecutions' = inserted.table
        /\ runs' = [runs EXCEPT ![logIndex] =
                       [Done(@) EXCEPT !.error = message, !.escaped = inserted.throws]]

\* executeMulticall has the balance: it throws when the balance does not
\* cover totalValue + estimatedGas * gasPrice, and otherwise signs the
\* transaction and hands it to sendRawTransactionSync.
BalanceReturns(logIndex, balance) ==
    LET run == runs[logIndex]
        requiredBalance == run.multicall.totalValue.num
                              + run.multicall.estimatedGas.num * GasPrice
    IN  /\ run.pc = "balance"
        /\ IF balance < requiredBalance
           THEN /\ catchError(logIndex, "Insufficient balance")
                /\ UNCHANGED rawTxs
           ELSE /\ runs' = [runs EXCEPT ![logIndex] = [@ EXCEPT !.pc = "send"]]
                /\ rawTxs' = rawTxs \cup
                      {[eventId |-> run.multicall.eventId, nonce |-> run.nonce,
                        value |-> run.multicall.totalValue.num,
                        data |-> encodeMulticallData(run.multicall.calls)]}
                /\ UNCHANGED hookExecutions
        /\ UNCHANGED <<eventHooks, transactionTemplates, simulated, chainTxs,
                       transactionCount, dateNow>>
        /\ ExecIdle

\* sendRawTransactionSync returns: the endpoint takes the transaction when
\* it accepts and the nonce is the next of the wallet, and the pending row
\* is inserted; an error of the endpoint or of the insert goes to the catch.
SendReturns(logIndex, accepts) ==
    LET run == runs[logIndex]
        txHash == TxHash(run.nonce)
        inserted == insert(hookExecutions, pendingExecution(run.multicall, "hook1", txHash))
    IN  /\ run.pc = "send"
        /\ IF accepts /\ run.nonce = transactionCount
           THEN /\ chainTxs' = chainTxs \cup {txHash}
                /\ transactionCount' = transactionCount + 1
                /\ IF inserted.throws
                   THEN catchError(logIndex, "UNIQUE constraint failed")
                   ELSE /\ hookExecutions' = inserted.table
                        /\ runs' = [runs EXCEPT ![logIndex] = Done(@)]
           ELSE /\ catchError(logIndex, "RPC error")
                /\ UNCHANGED <<chainTxs, transactionCount>>
        /\ UNCHANGED <<eventHooks, transactionTemplates, simulated, rawTxs, dateNow>>
        /\ ExecIdle

\* The statuses and the gas a caller of updateExecutionStatus passes.
ReceiptStatuses == {"confirmed", "failed"}

GasUsed == {0, 21000}

\* updateExecutionStatus: update hook_executions set status (and gasUsed
\* when it is given and not empty) where executionTxHash = txHash.
updateExecutionStatus(table, txHash, status, gasUsed) ==
    [id \in DOMAIN table |->
        IF table[id].executionTxHash = txHash
        THEN [table[id] EXCEPT !.status = status,
                               !.gasUsed = IF gasUsed # 0 THEN gasUsed ELSE @]
        ELSE table[id]]

\* The receipt of an accepted transaction arrives.
UpdateExecutionStatus(txHash, status, gasUsed) ==
    /\ txHash \in chainTxs
    /\ hookExecutions' = updateExecutionStatus(hookExecutions, txHash, status, gasUsed)
    /\ UNCHANGED <<eventHooks, transactionTemplates, runs, simulated, rawTxs, chainTxs,
                   transactionCount, dateNow>>
    /\ ExecIdle

ExecNext ==
    \/ \E template \in HookTemplates : StoreHook(template)
    \/ \E hookId \in HookIds : DisableHook(hookId)
    \/ \E hookId \in HookIds : EnableHook(hookId)
    \/ \E logIndex \in LogIndexes, ms \in 0..MaxDateNow : ProcessEvent(logIndex, ms)
    \/ \E logIndex \in LogIndexes, success \in BOOLEAN : SimulateReturns(logIndex, success)
    \/ \E logIndex \in LogIndexes : NonceReturns(logIndex)
    \/ \E logIndex \in LogIndexes, balance \in Balances : BalanceReturns(logIndex, balance)
    \/ \E logIndex \in LogIndexes, accepts \in BOOLEAN : SendReturns(logIndex, accepts)
    \/ \E nonce \in 0..1, status \in ReceiptStatuses, gasUsed \in GasUsed :
          UpdateExecutionStatus(TxHash(nonce), status, gasUsed)

ExecSpec == Init /\ [][ExecNext]_vars

(***************************************************************************)
(* Properties of the template executor.                                    *)
(***************************************************************************)
\* The id of the detected event of a log, and what the executor did for it.
EventId(logIndex) == <<"tx1", logIndex>>

RowsOf(logIndex) ==
    {id \in DOMAIN hookExecutions : hookExecutions[id].triggerEventId = EventId(logIndex)}

RawTxsOf(logIndex) == {tx \in rawTxs : tx.eventId = EventId(logIndex)}

NothingExecuted(logIndex) ==
    /\ EventId(logIndex) \notin simulated
    /\ RawTxsOf(logIndex) = {}
    /\ RowsOf(logIndex) = {}

\* A required variable of the template of the hook does not resolve from
\* the event of the log.
SomeRequiredUnresolved(logIndex) ==
    /\ "template1" \in DOMAIN transactionTemplates
    /\ \E i \in 1..Len(transactionTemplates["template1"].requiredVariables) :
          ~Resolves(EventAt(logIndex), transactionTemplates["template1"].requiredVariables[i],
                    UserWalletAddress)

\* C21: when a required variable of the template does not resolve from an
\* event, processTemplate returns no multicall for it, and for that hook
\* and event nothing is simulated, signed or handed to the endpoint and no
\* execution row is written.
C21_UnresolvedMeansNoExecution ==
    \A logIndex \in LogIndexes :
       SomeRequiredUnresolved(logIndex) =>
          /\ runs[logIndex].pc \in {"idle", "done"}
          /\ runs[logIndex].multicall = NoRun.multicall
          /\ NothingExecuted(logIndex)

\* C23: an executeMulticall that found the balance of the wallet below
\* totalValue + estimatedGas * gasPrice has signed nothing and handed
\* nothing to the endpoint, is over and is not run again, and has recorded
\* exactly one execution row of its event, failed and with the message.
C23_InsufficientBalanceAborts ==
    \A logIndex \in LogIndexes :
       runs[logIndex].error = "Insufficient balance" =>
          /\ runs[logIndex].pc = "done"
          /\ RawTxsOf(logIndex) = {}
          /\ Cardinality(RowsOf(logIndex)) = 1
          /\ \A id \in RowsOf(logIndex) :
                /\ hookExecutions[id].status = "failed"
                /\ hookExecutions[id].errorMessage = "Insufficient balance"

\* The statuses of an execution row, and the terminal ones.
ExecutionStatuses == {"pending", "success", "failed"}

TerminalStatuses == {"success", "failed"}

\* C24: the status of every execution row is pending, success or failed,
\* and a step changes a row that exists only from pending to success or
\* failed, in its status and its gasUsed alone: a terminal row is never
\* changed and no row disappears.
C24_OnlyPendingRowsSettle ==
    /\ [](\A id \in DOMAIN hookExecutions :
             hookExecutions[id].status \in ExecutionStatuses)
    /\ [][\A id \in DOMAIN hookExecutions :
             /\ id \in DOMAIN hookExecutions'
             /\ hookExecutions'[id] # hookExecutions[id] =>
                   /\ hookExecutions[id].status = "pending"
                   /\ hookExecutions'[id].status \in TerminalStatuses
                   /\ hookExecutions'[id] =
                         [hookExecutions[id] EXCEPT !.status = hookExecutions'[id].status,
                                                    !.gasUsed = hookExecutions'[id].gasUsed]]_vars

\* The hook is stored and active.
HookActive == "hook1" \in DOMAIN eventHooks /\ eventHooks["hook1"].isActive

\* The run of a log has taken the answer of the endpoint in this step.
SendReturned(logIndex) == runs[logIndex].pc = "send" /\ runs'[logIndex].pc = "done"

\* The row of the outcome of the run of a log is there after the step:
\* pending with the hash when the endpoint accepted the transaction, and
\* failed otherwise.
OutcomeRecorded(logIndex) ==
    \E id \in DOMAIN hookExecutions' :
       /\ hookExecutions'[id].triggerEventId = EventId(logIndex)
       /\ hookExecutions'[id].status =
             IF chainTxs' # chainTxs THEN "pending" ELSE "failed"

\* What holds of a disabled hook, apart from the record of the outcomes:
\* an event detected while the hook is disabled ends its run without a
\* multicall and with nothing simulated, sent or recorded; such a run has
\* nothing executed at any later time and a run that is over stays over;
\* and a step that disables or enables the hook leaves the runs in flight,
\* the transactions and the rows as they are.
DisabledProducesNothing ==
    /\ [][\A logIndex \in LogIndexes :
             (runs[logIndex].pc = "idle" /\ runs'[logIndex].pc # "idle" /\ ~HookActive) =>
                /\ runs'[logIndex] = Done(NoRun)
                /\ UNCHANGED <<simulated, rawTxs, chainTxs, hookExecutions>>]_vars
    /\ [](\A logIndex \in LogIndexes :
             runs[logIndex] = Done(NoRun) => NothingExecuted(logIndex))
    /\ [][\A logIndex \in LogIndexes :
             runs[logIndex].pc = "done" => runs'[logIndex] = runs[logIndex]]_vars
    /\ [][(eventHooks # <<>> /\ eventHooks' # eventHooks) =>
             UNCHANGED <<runs, simulated, rawTxs, chainTxs, hookExecutions>>]_vars

AuctionIdle == UNCHANGED <<ledgerVars, listenerVars, templateVars>>

\* The detected event of a log of tx1 as the listener hands it over, and
\* an event in the format of processInternalEvent with the topics of the log.
SharedEventAt(logIndex) ==
    [signature |-> [contractAddress |-> "PoolManager", eventName |-> "Initialize"],
     transactionHash |-> "tx1", logIndex |-> logIndex]

InternalEventAt(logIndex) ==
    [contractAddress |-> "PoolManager", topics |-> <<"Initialize">>,
     transactionHash |-> "tx1", logIndex |-> logIndex]

\* convertSharedEvent: the topics are a placeholder, one zero topic.
convertSharedEvent(sharedEvent) ==
    [contractAddress |-> sharedEvent.signature.contractAddress, topics |-> <<ZeroBytes>>,
     transactionHash |-> sharedEvent.transactionHash, logIndex |-> sharedEvent.logIndex]

\* event.topics[i] || zero
topicOrZero(topics, i) == IF i <= Len(topics) THEN topics[i] ELSE ZeroBytes

createEventFilter(event) ==
    [contractAddress |-> event.contractAddress,
     topic0 |-> topicOrZero(event.topics, 1), topic1 |-> topicOrZero(event.topics, 2),
     topic2 |-> topicOrZero(event.topics, 3), topic3 |-> topicOrZero(event.topics, 4),
     useTopic1 |-> FALSE, useTopic2 |-> FALSE, useTopic3 |-> FALSE]

\* getAuctionWinner: the current bidder of the row of the filter hash in
\* event_auctions, or null.
NoWinner == <<>>

getAuctionWinner(filterHash) ==
    IF filterHash \notin DOMAIN eventAuctions THEN NoWinner
    ELSE IF eventAuctions[filterHash].currentBidder = Null THEN NoWinner
    ELSE [bidder |-> eventAuctions[filterHash].currentBidder,
          hookConsumerAddress |-> eventAuctions[filterHash].currentBidder]

\* The AuctionMonitor has handled the AuctionCreated and the BidPlaced log
\* of the first bid of a bidder on FilterA.
AuctionSynced(bidder) ==
    LET created == [name |-> "AuctionCreated", filterHash |-> getFilterHash(FilterA),
                    who |-> Zero, vault |-> Zero, amount |-> 1, blockNumber |-> 1,
                    transactionIndex |-> 0, logIndex |-> 0]
        bid == [created EXCEPT !.name = "BidPlaced", !.who = bidder, !.logIndex = 1]
        db == runHandler(runHandler(Db, created, clockMs + 1), bid, clockMs + 1)
    IN  /\ eventAuctions = <<>>
        /\ eventAuctions' = db.auctions
        /\ auctionBids' = db.bids
        /\ clockMs' = clockMs + 1
        /\ UNCHANGED <<logs, cursor, running, backfill, sameTick>>
        /\ UNCHANGED <<execVars, auctionExecVars>>
        /\ AuctionIdle

\* What the steps of a run leave alone.
AuctionRunIdle ==
    /\ UNCHANGED <<syncVars, eventHooks, transactionTemplates, runs, simulated, rawTxs,
                   chainTxs, transactionCount>>
    /\ AuctionIdle

\* processInternalEvent: the filter of the event is made, and its hash is
\* asked of the contract.
ProcessInternalEvent(logIndex, event) ==
    /\ auctionRuns[logIndex].pc = "idle"
    /\ auctionRuns' = [auctionRuns EXCEPT ![logIndex] =
                          [@ EXCEPT !.pc = "filterHash", !.event = event]]
    /\ UNCHANGED <<executorTxs, executorTxCount, hookExecutions, dateNow>>
    /\ AuctionRunIdle

\* processEvent: the event is converted and handed to processInternalEvent.
AuctionProcessEvent(logIndex) ==
    LET event == convertSharedEvent(SharedEventAt(logIndex))
    IN  /\ auctionRuns[logIndex].pc = "idle"
        /\ auctionRuns' = [auctionRuns EXCEPT ![logIndex] =
                              [@ EXCEPT !.pc = "filterHash", !.event = event]]
        /\ UNCHANGED <<executorTxs, executorTxCount, hookExecutions, dateNow>>
        /\ AuctionRunIdle

\* The run of an event ends, with the error executeHook caught if any.
AuctionDone(run, error) == [run EXCEPT !.pc = "done", !.error = error]

\* The filter hash arrives: getAuctionWinner, and with a winner executeHook,
\* which asks for the transaction count of the executor.
FilterHashReturns(logIndex) ==
    LET run == auctionRuns[logIndex]
        filterHash == getFilterHash(createEventFilter(run.event))
        winner == getAuctionWinner(filterHash)
    IN  /\ run.pc = "filterHash"
        /\ auctionRuns' = [auctionRuns EXCEPT ![logIndex] =
              IF winner = NoWinner THEN AuctionDone(run, "")
              ELSE [run EXCEPT !.pc = "transactionCount", !.filterHash = filterHash,
                               !.winner = winner]]
        /\ UNCHANGED <<executorTxs, executorTxCount, hookExecutions, dateNow>>
        /\ AuctionRunIdle

\* The transaction count arrives; the trigger call is encoded, the filter
\* hash is asked for again and then the nonce of the executor.
TransactionCountReturns(logIndex) ==
    /\ auctionRuns[logIndex].pc = "transactionCount"
    /\ auctionRuns' = [auctionRuns EXCEPT ![logIndex] =
                          [@ EXCEPT !.pc = "executorNonce", !.nonce = executorTxCount]]
    /\ UNCHANGED <<executorTxs, executorTxCount, hookExecutions, dateNow>>
    /\ AuctionRunIdle

\* getExecutorNonce returns nonces(executor) of the contract: the
\* withdrawal is signed with it, the batch is encoded and its gas asked for.
ExecutorNonceReturns(logIndex) ==
    LET run == auctionRuns[logIndex]
        executorNonce == nonces[Exec1]
    IN  /\ run.pc = "executorNonce"
        /\ auctionRuns' = [auctionRuns EXCEPT ![logIndex] =
              [run EXCEPT !.pc = "estimateGas", !.executorNonce = executorNonce,
                          !.signature = createWithdrawalSignature(run.filterHash, Vault,
                                                                  executorNonce),
                          !.data = multicallData(createEventFilter(run.event), run.event,
                                                 run.winner, executorNonce)]]
        /\ UNCHANGED <<executorTxs, executorTxCount, hookExecutions, dateNow>>
        /\ AuctionRunIdle

\* estimateGas returns or throws; with an estimate (and the gas price) the
\* transaction is signed and handed to sendRawTransactionSync.
EstimateGasReturns(logIndex, success) ==
    LET run == auctionRuns[logIndex]
    IN  /\ run.pc = "estimateGas"
        /\ IF success
           THEN /\ auctionRuns' = [auctionRuns EXCEPT ![logIndex] = [run EXCEPT !.pc = "send"]]
                /\ executorTxs' = executorTxs \cup
                      {[logIndex |-> logIndex, nonce |-> run.nonce, data |-> run.data]}
           ELSE /\ auctionRuns' = [auctionRuns EXCEPT ![logIndex] =
                                      AuctionDone(run, "estimateGas failed")]
                /\ UNCHANGED executorTxs
        /\ UNCHANGED <<executorTxCount, hookExecutions, dateNow>>
        /\ AuctionRunIdle

\* recordExecution at the time ms of Date.now(): the row
\* `exec_${filterHash}_${Date.now()}`; an error of the insert is caught.
\* The hookId of the row is the filter hash and its triggerEventId the
\* transaction hash, which are no ids of event_hooks and detected_events:
\* a driver that enforces the foreign keys rejects the row.
recordExecution(table, filterHash, txHash, status, ms, foreignKeys) ==
    IF foreignKeys THEN table
    ELSE insert(table, [id |-> <<"exec", <<filterHash, ms>>>>, hookId |-> filterHash,
                        triggerEventId |-> txHash, executionTxHash |-> txHash,
                        status |-> status, gasUsed |-> 0, feeCharged |-> 0,
                        errorMessage |-> ""]).table

\* sendRawTransactionSync returns the hash and the execution is recorded
\* as pending, or it throws and executeHook returns the error.
AuctionSendReturns(logIndex, accepts, ms, foreignKeys) ==
    LET run == auctionRuns[logIndex]
    IN  /\ run.pc = "send"
        /\ IF accepts /\ run.nonce = executorTxCount
           THEN /\ ms \in {dateNow, dateNow + 1}
                /\ ms <= MaxDateNow
                /\ dateNow' = ms
                /\ executorTxCount' = executorTxCount + 1
                /\ hookExecutions' =
                      recordExecution(hookExecutions, run.filterHash,
                                      <<"0xexecutor", run.nonce>>, "pending", ms,
                                      foreignKeys)
                /\ auctionRuns' = [auctionRuns EXCEPT ![logIndex] = AuctionDone(run, "")]
           ELSE /\ ms = dateNow
                /\ auctionRuns' = [auctionRuns EXCEPT ![logIndex] =
                                      AuctionDone(run, "RPC error")]
                /\ UNCHANGED <<executorTxCount, hookExecutions, dateNow>>
        /\ UNCHANGED executorTxs
        /\ AuctionRunIdle

AuctionNext ==
    \/ \E bidder \in {Alice, Bob} : AuctionSynced(bidder)
    \/ \E logIndex \in LogIndexes : AuctionProcessEvent(logIndex)
    \/ \E logIndex \in LogIndexes : ProcessInternalEvent(logIndex, InternalEventAt(logIndex))
    \/ \E logIndex \in LogIndexes : FilterHashReturns(logIndex)
    \/ \E logIndex \in LogIndexes : TransactionCountReturns(logIndex)
    \/ \E logIndex \in LogIndexes : ExecutorNonceReturns(logIndex)
    \/ \E logIndex \in LogIndexes, success \in BOOLEAN : EstimateGasReturns(logIndex, success)
    \/ \E logIndex \in LogIndexes, accepts \in BOOLEAN, ms \in 0..MaxDateNow,
          foreignKeys \in BOOLEAN :
          AuctionSendReturns(logIndex, accepts, ms, foreignKeys)

AuctionExecSpec == Init /\ [][AuctionNext]_vars

\* The run of a log has signed a withdrawal.
HasSigned(logIndex) == auctionRuns[logIndex].signature # NoAuctionRun.signature

\* The run of a log is in flight.
InFlight(logIndex) == auctionRuns[logIndex].pc \notin {"idle", "done"}

FieldValues(field) ==
    IF field = "contractAddress" THEN {Zero, "PoolManager", "Token"}
    ELSE IF field \in {"useTopic1", "useTopic2", "useTopic3"} THEN BOOLEAN
    ELSE {ZeroBytes, "Initialize", "Swap"}

\* The filters that differ from `filter` in exactly one of the eight fields.
OneFieldVariants(filter) ==
    UNION {{[filter EXCEPT ![field] = v] : v \in FieldValues(field)} :
              field \in DOMAIN filter} \ {filter}

\* C31: getFilterHash is a function of the eight fields of the filter: the
\* hash a placeBid computed is the hash of its filter whenever it is computed
\* again, a filter that differs from it in one field (a use flag alone, or a
\* topic whose flag is false) has another hash, and a bid changes no auction
\* but the one of its own filter's hash.
C31_FilterHashOfEightFields ==
    /\ [](call.op = "placeBid" =>
            /\ call.filterHash = getFilterHash(call.filter)
            /\ \A g \in OneFieldVariants(call.filter) :
                  getFilterHash(g) # getFilterHash(call.filter))
    /\ [][call'.op = "placeBid" =>
            \A g \in Filters :
               g # call'.filter =>
                  auctions'[getFilterHash(g)] = auctions[getFilterHash(g)]]_vars

\* Two filters that differ in useTopic2 only have one auction each, with
\* bids of their own.
C31_Witness ==
    /\ call.op = "placeBid" /\ call.err = "ok" /\ call.filter = FilterB
    /\ auctions[getFilterHash(FilterA)].currentBidder = Alice
    /\ auctions[getFilterHash(FilterB)].currentBidder = Bob
    /\ auctions[getFilterHash(FilterA)].currentBid # auctions[getFilterHash(FilterB)].currentBid

\* C32: a bid placed on a filter right after its winnings were withdrawn is
\* accepted or rejected by the usual rules, and when it is accepted the
\* ledger pays nothing out for the bid that was withdrawn: the amount that
\* went to the vault is all that ever leaves the ledger on its account.
C32_BidAfterPayoutPaysNothing ==
    [][(/\ call.op = "withdrawWinnings" /\ call.err = "ok"
        /\ call'.op = "placeBid" /\ call'.err = "ok"
        /\ call'.filterHash = call.filterHash)
          => /\ auctions[call.filterHash].isExecuted
             /\ call'.value >= requiredBid(auctions[call.filterHash].currentBid)
             /\ call'.transfers = <<>>]_vars

RECURSIVE SumOfBids(_)
\* The sum of currentBid over the auctions of `hashes`.
SumOfBids(hashes) ==
    IF hashes = {} THEN 0
    ELSE LET h == CHOOSE x \in hashes : TRUE
         IN  auctions[h].currentBid + SumOfBids(hashes \ {h})

\* The bids that are outstanding: those of the auctions not paid out.
OutstandingBids == SumOfBids({h \in FilterHashes : ~auctions[h].isExecuted})

\* C33: no call other than the owner's withdraw() takes a ledger that holds
\* at least the sum of the current bids of the auctions whose winnings were
\* not withdrawn to one that holds less; the ledger starts empty with no
\* bids, so after any sequence of such calls it can pay every outstanding bid.
C33_LedgerSolvent ==
    [][(/\ balances[Ledger] >= OutstandingBids
        /\ call'.op # "withdraw")
          => balances'[Ledger] >= OutstandingBids']_vars

\* An auction that was created: placeBid's creation branch stored its filter,
\* and nothing clears it.
Created(auction) == auction.filter # ZeroFilter

\* The names of the events of a transaction.
EventNames(events) == {events[i].name : i \in DOMAIN events}

\* C34: an accepted placeBid on an auction that was created before does not
\* run the creation branch again: minimumBid and isActive stay as they are
\* and no AuctionCreated is emitted, whatever happened since the creation.
C34_InitialisedOnce ==
    [][(/\ call'.op = "placeBid" /\ call'.err = "ok"
        /\ Created(auctions[call'.filterHash]))
          => /\ auctions'[call'.filterHash].minimumBid = auctions[call'.filterHash].minimumBid
             /\ auctions'[call'.filterHash].isActive = auctions[call'.filterHash].isActive
             /\ "AuctionCreated" \notin EventNames(call'.events)]_vars

(***************************************************************************)
(* Properties of the read model: the terminal marker.                      *)
(***************************************************************************)
\* C35: isActive = false is written to event_auctions by
\* handleWinningsWithdrawn alone; once a row has it, no later write of any
\* handler, from a watcher or from the backfill, sets isActive back to true.
C35_WithdrawnIsTerminal ==
    [][\A h \in DOMAIN eventAuctions :
          ~eventAuctions[h].isActive =>
             h \in DOMAIN eventAuctions' /\ ~eventAuctions'[h].isActive]_vars

(***************************************************************************)
(* Properties of the connection.                                           *)
(***************************************************************************)
\* The WebSockets that are connecting or open.
Live ==
    (IF socket \in {"CONNECTING", "OPEN"} THEN 1 ELSE 0)
        + replaced["CONNECTING"] + replaced["OPEN"]

\* C36: at most one WebSocket is connecting or open at any time, and the
\* close event of a socket that is not the newest leaves this.ws, the
\* reference to the newest socket, as it is.
C36_AtMostOneSocket ==
    /\ [](Live <= 1)
    /\ [][(lcall'.op = "handleClose" /\ replaced' # replaced) => ws' = ws]_vars

\* connect() gets past its guard and creates a WebSocket: nothing else sets
\* isConnecting.
Connects == ~isConnecting /\ isConnecting'

\* C37: from stop(), which calls disconnect(), until start() calls connect()
\* again, no WebSocket is created, and no reconnect is scheduled: neither by
\* a timer that was pending at the disconnect nor by the close event of the
\* socket that disconnect() closed.
C37_NoConnectionAfterDisconnect ==
    [][(started = "stopped" /\ started' = "stopped") =>
          /\ ~Connects
          /\ Len(timers') <= Len(timers)]_vars

C39_AcceptedTransactionsHaveRows ==
    /\ \A txHash \in chainTxs :
          \E id \in DOMAIN hookExecutions : hookExecutions[id].executionTxHash = txHash
    /\ \A logIndex \in LogIndexes :
          (\E id \in DOMAIN hookExecutions :
              /\ hookExecutions[id].triggerEventId = EventId(logIndex)
              /\ hookExecutions[id].executionTxHash = ZeroHash
              /\ hookExecutions[id].status = "failed")
            => runs[logIndex].error \in {"Insufficient balance", "RPC error"}

(***************************************************************************)
(* Validation against resolution.                                          *)
(***************************************************************************)
\* The inputs of an ABI for which the args of SwapEvent hold a value.
ValuedInputs == {name \in DOMAIN SwapArgs : SwapArgs[name].t # "undefined"}

\* C40: when validateVariablesForEvent accepts a list of variables for an
\* ABI whose inputs all have a value in the args of the detected event,
\* resolveVariables resolves every event-typed variable of the list.
C40_ValidatedVariablesResolve ==
    tcall.op = "resolveVariables" =>
       LET validation == validateVariablesForEvent(tcall.variables, ValuedInputs)
       IN  (~validation.throws /\ validation.isValid) =>
              \A i \in 1..Len(tcall.variables) :
                 tcall.variables[i].type = "event" =>
                    /\ Resolves(SwapEvent, tcall.variables[i], UserWalletAddress)
                    /\ tcall.variables[i].name \in DOMAIN tcall.result

====
